---- MODULE Spec2Model ----
(***************************************************************************)
(* Carnavul downloader: title parser, catalog matcher, candidate           *)
(* collection / selection (processChannel), single-video and check-later   *)
(* processing, and the JSON tracking collections.                          *)
(*                                                                         *)
(* A JavaScript string is a sequence of characters, a character being a    *)
(* one-character TLA+ string ("o_acute" stands for the precomposed letter  *)
(* o with acute accent, "U+0301" for the combining acute accent).  The     *)
(* JavaScript null / undefined of a string-valued field is NULL, of a      *)
(* {name, category} object NullConjunto.                                   *)
(***************************************************************************)
EXTENDS Integers, Sequences, FiniteSets, TLC

NULL == <<"null">>

NullConjunto == [name |-> NULL, category |-> NULL]

\* JavaScript truthiness of a string-valued expression: null, undefined and
\* the empty string are falsy.
Truthy(str) == str # NULL /\ str # <<>>

Min2(a, b) == IF a <= b THEN a ELSE b

Max2(a, b) == IF a >= b THEN a ELSE b

----------------------------------------------------------------------------
(* Characters *)

Digits == {"0", "1", "2", "3", "4", "5", "6", "7", "8", "9"}

UpperSeq == <<"A", "B", "C", "D", "E", "F", "G", "H", "I", "J", "K", "L", "M",
              "N", "O", "P", "Q", "R", "S", "T", "U", "V", "W", "X", "Y", "Z">>

LowerSeq == <<"a", "b", "c", "d", "e", "f", "g", "h", "i", "j", "k", "l", "m",
              "n", "o", "p", "q", "r", "s", "t", "u", "v", "w", "x", "y", "z">>

LowerLetters == {LowerSeq[i] : i \in 1..Len(LowerSeq)}

CombiningMarks == {"U+0301"}

\* \s of the regular expressions (the titles of the model hold no other
\* white space and no line terminator).
IsWs(c) == c = " "

\* \w of the regular expressions.
IsWordChar(c) ==
  \/ c \in LowerLetters \cup Digits \cup {"_"}
  \/ \E i \in 1..Len(UpperSeq) : UpperSeq[i] = c

\* String.prototype.toLowerCase.
toLowerCase(str) ==
  [i \in 1..Len(str) |->
     IF \E k \in 1..Len(UpperSeq) : UpperSeq[k] = str[i]
       THEN LowerSeq[CHOOSE k \in 1..Len(UpperSeq) : UpperSeq[k] = str[i]]
       ELSE IF str[i] = "O_acute" THEN "o_acute" ELSE str[i]]

\* String.prototype.normalize("NFD"): canonical decomposition.
RECURSIVE normalizeNFD(_)
normalizeNFD(str) ==
  IF str = <<>> THEN <<>>
  ELSE (IF Head(str) = "o_acute" THEN <<"o", "U+0301">>
        ELSE IF Head(str) = "O_acute" THEN <<"O", "U+0301">>
        ELSE <<Head(str)>>)
       \o normalizeNFD(Tail(str))

\* String.prototype.trim.
RECURSIVE trimStart(_)
trimStart(str) ==
  IF str # <<>> /\ IsWs(Head(str)) THEN trimStart(Tail(str)) ELSE str

RECURSIVE trimEnd(_)
trimEnd(str) ==
  IF str # <<>> /\ IsWs(str[Len(str)])
    THEN trimEnd(SubSeq(str, 1, Len(str) - 1)) ELSE str

trim(str) == trimEnd(trimStart(str))

\* String.prototype.includes.
includes(str, sub) ==
  \E i \in 0..(Len(str) - Len(sub)) : SubSeq(str, i + 1, i + Len(sub)) = sub

\* String.prototype.startsWith.
startsWith(str, prefix) ==
  Len(prefix) <= Len(str) /\ SubSeq(str, 1, Len(prefix)) = prefix

\* Index of the first character at or after i that is not white space
\* (Len(str) + 1 when there is none): where a greedy \s* started at i ends.
RECURSIVE skipWs(_, _)
skipWs(str, i) ==
  IF i <= Len(str) /\ IsWs(str[i]) THEN skipWs(str, i + 1) ELSE i

----------------------------------------------------------------------------
(* parser.js: normalizeString, calculateSimilarity, findBestConjuntoMatch *)

\* normalizeString without its last replace call.
normalizeStringWithoutLastReplace(str) ==
  IF str = NULL THEN <<>>
  ELSE SelectSeq(
         SelectSeq(normalizeNFD(toLowerCase(str)),
                   LAMBDA c : c \notin CombiningMarks),
         LAMBDA c : ~(c = "'" \/ IsWs(c)))

\* toLowerCase, normalize("NFD"), then the three replace calls: combining
\* marks, apostrophes and white space, everything outside [a-z0-9].
normalizeString(str) ==
  IF str = NULL THEN <<>>
  ELSE SelectSeq(
         SelectSeq(
           SelectSeq(normalizeNFD(toLowerCase(str)),
                     LAMBDA c : c \notin CombiningMarks),
           LAMBDA c : ~(c = "'" \/ IsWs(c))),
         LAMBDA c : c \in LowerLetters \cup Digits)

\* A row built without the substitution term matrix[i - 1][j - 1] + 1.
RECURSIVE matrixRowCellsWithoutSubstitution(_, _, _, _, _)
matrixRowCellsWithoutSubstitution(prev, c, s2, j, acc) ==
  IF j > Len(s2) THEN acc
  ELSE matrixRowCellsWithoutSubstitution(prev, c, s2, j + 1,
         Append(acc, IF c = s2[j] THEN prev[j]
                     ELSE Min2(acc[j] + 1, prev[j + 1] + 1)))

\* Row i of the Levenshtein matrix, built left to right from row i - 1
\* (prev): row[j + 1] is matrix[i][j], acc holds matrix[i][0..j-1].
RECURSIVE matrixRowCells(_, _, _, _, _)
matrixRowCells(prev, c, s2, j, acc) ==
  IF j > Len(s2) THEN acc
  ELSE LET cell == IF c = s2[j] THEN prev[j]
                   ELSE Min2(prev[j] + 1, Min2(acc[j] + 1, prev[j + 1] + 1))
           next == Append(acc, cell)
       IN IF Len(next) = j + 1 THEN matrixRowCells(prev, c, s2, j + 1, next)
          ELSE next

\* Rows i..Len(s1) of the matrix, given row i - 1; the result is the last row.
RECURSIVE matrixRows(_, _, _, _)
matrixRows(s1, s2, i, prev) ==
  IF i > Len(s1) THEN prev
  ELSE LET row == matrixRowCells(prev, s1[i], s2, 1, <<i>>)
       IN IF Len(row) = Len(s2) + 1 THEN matrixRows(s1, s2, i + 1, row)
          ELSE row

\* matrix[s1.length][s2.length]; row 0 is matrix[0][j] = j.
levenshteinDistance(s1, s2) ==
  matrixRows(s1, s2, 1, [j \in 1..(Len(s2) + 1) |-> j - 1])[Len(s2) + 1]

\* A similarity score is the exact fraction num / den.
SimOne == [num |-> 1, den |-> 1]

SimGT(a, b) == a.num * b.den > b.num * a.den

SimGE(a, b) == a.num * b.den >= b.num * a.den

\* The inclusion test in one direction only.
similarityOfFirstContaining(s1, s2) ==
  IF includes(s1, s2) THEN SimOne
  ELSE IF Max2(Len(s1), Len(s2)) = 0 THEN SimOne
  ELSE [num |-> Max2(Len(s1), Len(s2)) - levenshteinDistance(s1, s2),
        den |-> Max2(Len(s1), Len(s2))]

\* calculateSimilarity from its two normalized strings on.
similarityOf(s1, s2) ==
  IF includes(s1, s2) \/ includes(s2, s1) THEN SimOne
  ELSE IF Max2(Len(s1), Len(s2)) = 0 THEN SimOne
  ELSE [num |-> Max2(Len(s1), Len(s2)) - levenshteinDistance(s1, s2),
        den |-> Max2(Len(s1), Len(s2))]

calculateSimilarity(str1, str2) ==
  similarityOf(normalizeString(str1), normalizeString(str2))

\* Object.entries(conjuntos) flattened: every (category, name) pair in
\* iteration order.  A catalog is a sequence of <<category, names>>.
RECURSIVE catalogPairs(_)
catalogPairs(conjuntos) ==
  IF conjuntos = <<>> THEN <<>>
  ELSE LET category == Head(conjuntos)[1]
           groupList == Head(conjuntos)[2]
       IN [i \in 1..Len(groupList) |-> [name |-> groupList[i], category |-> category]]
          \o catalogPairs(Tail(conjuntos))

\* The loop of findBestConjuntoMatch over pairs[k..]: the state is
\* (bestMatch, bestScore).
RECURSIVE bestMatchLoop(_, _, _, _, _, _)
\* One iteration with >= for >: among equal scores the last entry is kept.
bestMatchStepKeepsLast(normalizedTitlePart, pairs, threshold, k, bestMatch, bestScore, similarity) ==
  IF SimGE(similarity, bestScore)
    THEN bestMatchLoop(normalizedTitlePart, pairs, threshold, k + 1,
                       IF SimGE(similarity, threshold) THEN pairs[k] ELSE bestMatch,
                       similarity)
    ELSE bestMatchLoop(normalizedTitlePart, pairs, threshold, k + 1,
                       bestMatch, bestScore)

\* One iteration, similarity being the score of pairs[k].
bestMatchStep(normalizedTitlePart, pairs, threshold, k, bestMatch, bestScore, similarity) ==
  IF SimGT(similarity, bestScore)
    THEN bestMatchLoop(normalizedTitlePart, pairs, threshold, k + 1,
                       IF SimGE(similarity, threshold) THEN pairs[k] ELSE bestMatch,
                       similarity)
    ELSE bestMatchLoop(normalizedTitlePart, pairs, threshold, k + 1,
                       bestMatch, bestScore)

bestMatchLoop(normalizedTitlePart, pairs, threshold, k, bestMatch, bestScore) ==
  IF k > Len(pairs) THEN bestMatch
  ELSE bestMatchStep(normalizedTitlePart, pairs, threshold, k, bestMatch, bestScore,
                     calculateSimilarity(normalizedTitlePart,
                                         normalizeString(pairs[k].name)))

findBestConjuntoMatch(titlePart, conjuntos, threshold) ==
  IF ~Truthy(titlePart) THEN NullConjunto
  ELSE bestMatchLoop(normalizeString(titlePart), catalogPairs(conjuntos),
                     threshold, 1, NullConjunto, [num |-> 0, den |-> 1])

----------------------------------------------------------------------------
(* parser.js: parseVideoTitle *)

EmptyRecord ==
  [year |-> NULL, conjunto |-> NullConjunto, round |-> NULL,
   isAlternativeFormat |-> FALSE]

PrivateMarker == <<"[","P","r","i","v","a","t","e"," ","v","i","d","e","o","]">>

DeletedMarker == <<"[","D","e","l","e","t","e","d"," ","v","i","d","e","o","]">>

\* The exclusion filter without its last keyword.
skipKeywordsWithoutLlamadas ==
  << <<"p","r","u","e","b","a","d","e","a","d","m","i","s","i","o","n">>,
     <<"d","e","s","f","i","l","e">> >>

\* The keywords of the exclusion filter, compared with the normalized title.
skipKeywords ==
  << <<"p","r","u","e","b","a","d","e","a","d","m","i","s","i","o","n">>,
     <<"d","e","s","f","i","l","e">>,
     <<"l","l","a","m","a","d","a","s">> >>

\* roundKeywords, in insertion order: the label and its normalized form
\* (normalizedRoundKeywords is the second column, roundLookup maps it back).
roundKeywords ==
  << [label |-> <<"P","r","i","m","e","r","a"," ","R","u","e","d","a">>,
      kw |-> <<"p","r","i","m","e","r","a","r","u","e","d","a">>],
     [label |-> <<"1","r","a"," ","R","u","e","d","a">>,
      kw |-> <<"1","r","a","r","u","e","d","a">>],
     [label |-> <<"1","e","r","a"," ","R","u","e","d","a">>,
      kw |-> <<"1","e","r","a","r","u","e","d","a">>],
     [label |-> <<"S","e","g","u","n","d","a"," ","R","u","e","d","a">>,
      kw |-> <<"s","e","g","u","n","d","a","r","u","e","d","a">>],
     [label |-> <<"2","d","a"," ","R","u","e","d","a">>,
      kw |-> <<"2","d","a","r","u","e","d","a">>],
     [label |-> <<"L","i","g","u","i","l","l","a">>,
      kw |-> <<"l","i","g","u","i","l","l","a">>] >>

\* roundLookup[normalizedRoundKeywords.find(kw => text.includes(kw))], or
\* NULL when find returns undefined.
matchedRound(normalizedText) ==
  LET hits == {k \in 1..Len(roundKeywords) : includes(normalizedText, roundKeywords[k].kw)}
  IN IF hits = {} THEN NULL
     ELSE roundKeywords[CHOOSE k \in hits : \A h \in hits : k <= h].label

SetMin(S) == CHOOSE x \in S : \A y \in S : x <= y

SetMax(S) == CHOOSE x \in S : \A y \in S : x >= y

NoMatch == [ok |-> FALSE]

\* /Etapa/i at index p.
etapaAt(str, p) ==
  /\ p >= 1
  /\ p + 4 <= Len(str)
  /\ toLowerCase(SubSeq(str, p, p + 4)) = <<"e","t","a","p","a">>

\* The shared tail  \s*-\s*(.+?)\s*-\s*(.+)  of format1Regex and
\* format2Regex, matched from index a: the white space after the first dash
\* is taken greedily, the name lazily, the round takes the rest of the title.
nameRoundTail(str, a) ==
  LET dash1 == skipWs(str, a)
      tailOK(n1) == LET d == skipWs(str, n1) IN d < Len(str) /\ str[d] = "-"
  IN IF ~(dash1 <= Len(str) /\ str[dash1] = "-") THEN NoMatch
     ELSE LET wsEnd == skipWs(str, dash1 + 1)
              starts == {n0 \in (dash1 + 1)..wsEnd :
                           \E n1 \in (n0 + 1)..Len(str) : tailOK(n1)}
          IN IF starts = {} THEN NoMatch
             ELSE LET n0 == SetMax(starts)
                      n1 == SetMin({n \in (n0 + 1)..Len(str) : tailOK(n)})
                      rest == SubSeq(str, skipWs(str, n1) + 1, Len(str))
                  IN [ok |-> TRUE,
                      namePartRaw |-> SubSeq(str, n0, n1 - 1),
                      roundPart |-> IF trimStart(rest) # <<>> THEN trimStart(rest)
                                    ELSE <<rest[Len(rest)]>>]

\* format1Regex = /(\d+(?:ta|ma|ra|da))?\s*Etapa\s*(\d{4})\s*-\s*(.+?)\s*-\s*(.+)/i
\* with "Etapa" at index p (the optional ordinal never decides the match).
format1Tail(str, y, t) ==
  IF ~t.ok THEN NoMatch
  ELSE [ok |-> TRUE, matchedYear |-> SubSeq(str, y, y + 3),
        namePartRaw |-> t.namePartRaw, roundPart |-> t.roundPart]

format1Year(str, y) ==
  IF ~(y + 3 <= Len(str) /\ \A k \in y..(y + 3) : str[k] \in Digits)
    THEN NoMatch
    ELSE format1Tail(str, y, nameRoundTail(str, y + 4))

format1At(str, p) ==
  IF ~etapaAt(str, p) THEN NoMatch ELSE format1Year(str, skipWs(str, p + 5))

\* title.match(format1Regex): the leftmost match.
format1Match(str) ==
  IF \A p \in 1..Len(str) : ~format1At(str, p).ok THEN NoMatch
  ELSE format1At(str, SetMin({p \in 1..Len(str) : format1At(str, p).ok}))

\* Index of the last character at or before i that is not white space (0
\* when there is none).
RECURSIVE skipWsBack(_, _)
skipWsBack(str, i) ==
  IF i >= 1 /\ IsWs(str[i]) THEN skipWsBack(str, i - 1) ELSE i

\* (\d+(?:ta|ma|ra|da))\s*  ending right before index p.
ordinalBefore(str, p) ==
  LET b == skipWsBack(str, p - 1)
  IN /\ b >= 3
     /\ toLowerCase(SubSeq(str, b - 1, b)) \in
          {<<"t","a">>, <<"m","a">>, <<"r","a">>, <<"d","a">>}
     /\ str[b - 2] \in Digits

\* format2Regex = /(\d+(?:ta|ma|ra|da))\s*Etapa\s*-\s*(.+?)\s*-\s*(.+)/i
format2At(str, p) ==
  IF ~(etapaAt(str, p) /\ ordinalBefore(str, p)) THEN NoMatch
  ELSE nameRoundTail(str, p + 5)

format2Match(str) ==
  IF \A p \in 1..Len(str) : ~format2At(str, p).ok THEN NoMatch
  ELSE format2At(str, SetMin({p \in 1..Len(str) : format2At(str, p).ok}))

\* etapa2015FormatRegex = /^(\d)\s?A?\s?ETAPA\s+(.+?)\s+(LIGUILLA)$/i
etapa2015Match(str) ==
  LET L == Len(str)
      low == toLowerCase(str)
      liguilla == <<"l","i","g","u","i","l","l","a">>
      \* where ETAPA can start after  ^(\d)\s?A?\s?
      qs == {q \in 2..5 :
               /\ etapaAt(str, q)
               /\ \E b1, b2, b3 \in {0, 1} :
                    /\ q = 2 + b1 + b2 + b3
                    /\ b1 = 1 => IsWs(str[2])
                    /\ b2 = 1 => low[2 + b1] = "a"
                    /\ b3 = 1 => IsWs(str[2 + b1 + b2])}
      tailOK(n1) == /\ n1 <= L - 8
                    /\ skipWs(str, n1) = L - 7
                    /\ SubSeq(low, L - 7, L) = liguilla
  IN IF ~(L >= 1 /\ str[1] \in Digits /\ qs # {}) THEN NoMatch
     ELSE LET e == SetMin(qs) + 5
              wsEnd == skipWs(str, e)
              starts == {n0 \in (e + 1)..wsEnd : \E n1 \in (n0 + 1)..L : tailOK(n1)}
          IN IF starts = {} THEN NoMatch
             ELSE LET n0 == SetMax(starts)
                      n1 == SetMin({n \in (n0 + 1)..L : tailOK(n)})
                  IN [ok |-> TRUE, etapa |-> str[1],
                      namePartRaw |-> SubSeq(str, n0, n1 - 1)]

\* parseInt of one decimal digit.
digitValue(c) == CHOOSE n \in 0..9 : <<"0","1","2","3","4","5","6","7","8","9">>[n + 1] = c

\* /\b(19[89]\d|20\d{2})\b/ at index i.
yearAt(str, i) ==
  /\ i + 3 <= Len(str)
  /\ \/ /\ str[i] = "1" /\ str[i + 1] = "9"
        /\ str[i + 2] \in {"8", "9"} /\ str[i + 3] \in Digits
     \/ /\ str[i] = "2" /\ str[i + 1] = "0"
        /\ str[i + 2] \in Digits /\ str[i + 3] \in Digits
  /\ i = 1 \/ ~IsWordChar(str[i - 1])
  /\ i + 3 = Len(str) \/ ~IsWordChar(str[i + 4])

\* yearMatch ? yearMatch[0] : null
yearMatch(str) ==
  LET is == {i \in 1..Len(str) : yearAt(str, i)}
  IN IF is = {} THEN NULL ELSE SubSeq(str, SetMin(is), SetMin(is) + 3)

\* The threshold 0.85 every stage of the parser passes to the matcher.
ParserThreshold == [num |-> 85, den |-> 100]

\* The parser's local variables after the explicit-format stages that have
\* run so far.
NothingParsed ==
  [formatMatchedSuccessfully |-> FALSE, year |-> NULL, conjunto |-> NullConjunto,
   round |-> NULL, isAlternativeFormat |-> FALSE]

\* An explicit format that gives up the whole parse when its round is
\* found and its conjunto is not.
explicitFormatAborting(st, year, currentRound, matchedConjunto) ==
  IF currentRound = NULL THEN st
  ELSE IF matchedConjunto = NullConjunto
    THEN [formatMatchedSuccessfully |-> TRUE, year |-> NULL,
          conjunto |-> NullConjunto, round |-> NULL, isAlternativeFormat |-> FALSE]
  ELSE [formatMatchedSuccessfully |-> TRUE, year |-> year,
        conjunto |-> matchedConjunto, round |-> currentRound,
        isAlternativeFormat |-> TRUE]

\* Format: "X Etapa YYYY - Name - Round"
\* An explicit format matched: the parse it gives when both its round and
\* its conjunto are found, else the parse so far (st).
explicitFormat(st, year, currentRound, matchedConjunto) ==
  IF currentRound # NULL /\ matchedConjunto # NullConjunto
    THEN [formatMatchedSuccessfully |-> TRUE, year |-> year,
          conjunto |-> matchedConjunto, round |-> currentRound,
          isAlternativeFormat |-> TRUE]
    ELSE st

format1Result(m, conjuntos) ==
  IF ~m.ok THEN NothingParsed
  ELSE explicitFormat(NothingParsed, m.matchedYear,
                      matchedRound(normalizeString(trim(m.roundPart))),
                      findBestConjuntoMatch(trim(m.namePartRaw), conjuntos,
                                            ParserThreshold))

stageFormat1(title, conjuntos) == format1Result(format1Match(title), conjuntos)

\* Format: "X Etapa - Name - Round" (year missing), tried only if format 1
\* did not succeed.
format2Result(st, m, conjuntos) ==
  IF ~m.ok THEN st
  ELSE explicitFormat(st, NULL,
                      matchedRound(normalizeString(trim(m.roundPart))),
                      findBestConjuntoMatch(trim(m.namePartRaw), conjuntos,
                                            ParserThreshold))

stageFormat2(st, title, conjuntos) ==
  IF st.formatMatchedSuccessfully THEN st
  ELSE format2Result(st, format2Match(title), conjuntos)

\* The 2015 format without the check of its digit.
etapa2015ResultAnyDigit(st, m, conjuntos) ==
  IF ~m.ok THEN st
  ELSE explicitFormat(st, <<"2","0","1","5">>,
                      <<"L","i","g","u","i","l","l","a">>,
                      findBestConjuntoMatch(trim(m.namePartRaw), conjuntos,
                                            ParserThreshold))

\* Format: 2015 Liguilla ("XA ETAPA NAME LIGUILLA"), tried only if the
\* previous formats did not succeed.
etapa2015Result(st, m, conjuntos) ==
  IF ~m.ok THEN st
  ELSE IF ~(digitValue(m.etapa) >= 1 /\ digitValue(m.etapa) <= 6) THEN st
  ELSE explicitFormat(st, <<"2","0","1","5">>,
                      <<"L","i","g","u","i","l","l","a">>,
                      findBestConjuntoMatch(trim(m.namePartRaw), conjuntos,
                                            ParserThreshold))

stageEtapa2015(st, title, conjuntos) ==
  IF st.formatMatchedSuccessfully THEN st
  ELSE etapa2015Result(st, etapa2015Match(title), conjuntos)

\* A consolidation that gives the empty record unless both the conjunto and
\* the year are found.
consolidateNeedsBoth(conjunto, year, round) ==
  IF conjunto = NullConjunto \/ ~Truthy(year) THEN EmptyRecord
  ELSE [year |-> year, conjunto |-> conjunto, round |-> round,
        isAlternativeFormat |-> FALSE]

\* Final consolidation of the fallback's conjunto, year and round.
consolidate(conjunto, year, round) ==
  IF conjunto = NullConjunto THEN EmptyRecord
  ELSE [year |-> year, conjunto |-> conjunto, round |-> round,
        isAlternativeFormat |-> FALSE]

\* A fallback that also runs after an explicit format has succeeded.
stageFallbackAlways(st, title, conjuntos) ==
  consolidate(findBestConjuntoMatch(title, conjuntos, ParserThreshold),
              yearMatch(title), matchedRound(normalizeString(title)))

\* General fallback parsing and the final consolidation.
stageFallback(st, title, conjuntos) ==
  IF st.formatMatchedSuccessfully
    THEN [year |-> st.year, conjunto |-> st.conjunto, round |-> st.round,
          isAlternativeFormat |-> st.isAlternativeFormat]
    ELSE consolidate(
           IF st.conjunto = NullConjunto
             THEN findBestConjuntoMatch(title, conjuntos, ParserThreshold)
             ELSE st.conjunto,
           IF ~Truthy(st.year) THEN yearMatch(title) ELSE st.year,
           IF ~Truthy(st.round) THEN matchedRound(normalizeString(title))
           ELSE st.round)

parseVideoTitle(title, conjuntos) ==
  IF ~Truthy(title) THEN EmptyRecord
  ELSE IF startsWith(title, PrivateMarker) \/ startsWith(title, DeletedMarker)
    THEN EmptyRecord
  ELSE IF \E k \in 1..Len(skipKeywords) : includes(normalizeString(title), skipKeywords[k])
    THEN EmptyRecord
  ELSE stageFallback(
         stageEtapa2015(stageFormat2(stageFormat1(title, conjuntos), title, conjuntos),
                        title, conjuntos),
         title, conjuntos)

----------------------------------------------------------------------------
(* processor.js: getRoundPriority; downloader.js: shouldDownload *)

\* The tests of getRoundPriority in the opposite order.
priorityOfLowestFirst(normalized) ==
  IF \/ includes(normalized, <<"p","r","i","m","e","r","a">>)
     \/ includes(normalized, <<"1","r","a">>)
     \/ includes(normalized, <<"1","e","r","a">>) THEN 1
  ELSE IF \/ includes(normalized, <<"s","e","g","u","n","d","a">>)
          \/ includes(normalized, <<"2","d","a">>) THEN 2
  ELSE IF includes(normalized, <<"l","i","g","u","i","l","l","a">>) THEN 3
  ELSE 0

\* getRoundPriority from the normalized round name on.
priorityOf(normalized) ==
  IF includes(normalized, <<"l","i","g","u","i","l","l","a">>) THEN 3
  ELSE IF \/ includes(normalized, <<"s","e","g","u","n","d","a">>)
          \/ includes(normalized, <<"2","d","a">>) THEN 2
  ELSE IF \/ includes(normalized, <<"p","r","i","m","e","r","a">>)
          \/ includes(normalized, <<"1","r","a">>)
          \/ includes(normalized, <<"1","e","r","a">>) THEN 1
  ELSE 0

getRoundPriority(roundName) ==
  IF ~Truthy(roundName) THEN 0 ELSE priorityOf(normalizeString(roundName))

\* parseInt of a string of decimal digits.
RECURSIVE parseInt(_)
parseInt(str) ==
  IF str = <<>> THEN 0
  ELSE 10 * parseInt(SubSeq(str, 1, Len(str) - 1)) + digitValue(str[Len(str)])

\* A field of a JavaScript object that may lack it: undefined reads as NULL.
Get(obj, field) == IF field \in DOMAIN obj THEN obj[field] ELSE NULL

MinMinutes == 30

FragmentoYear == 2005

\* videoInfo is the metadata {id, title, duration}; it has no duration field
\* when the metadata carries none (parseInt gives NaN).  parsedInfo is the
\* caller's {year, conjunto, round[, isAlternativeFormat]}.  A reason is the
\* message without the interpolated number.
shouldDownload(videoInfo, parsedInfo) ==
  IF "duration" \notin DOMAIN videoInfo
    THEN [download |-> FALSE, reason |-> "Video has invalid duration"]
  ELSE LET durationSeconds == videoInfo.duration
           normalizedTitle ==
             SelectSeq(normalizeNFD(toLowerCase(videoInfo.title)),
                       LAMBDA c : c \notin CombiningMarks)
       IN IF /\ "isAlternativeFormat" \in DOMAIN parsedInfo
             /\ parsedInfo.isAlternativeFormat
             /\ Truthy(parsedInfo.round)
            THEN [download |-> TRUE, reason |-> "Competition round format"]
          ELSE IF durationSeconds < MinMinutes * 60
            THEN IF /\ includes(normalizedTitle, <<"f","r","a","g","m","e","n","t","o">>)
                    /\ Truthy(parsedInfo.year)
                    /\ parseInt(parsedInfo.year) # 0
                    /\ parseInt(parsedInfo.year) < FragmentoYear
                   THEN [download |-> TRUE, reason |-> "Fragmento before 2005"]
                   ELSE [download |-> FALSE, reason |-> "Video duration < 30 min"]
          ELSE IF includes(normalizedTitle, <<"r","e","s","u","m","e","n">>)
            THEN [download |-> FALSE, reason |-> "Title contains 'resumen'"]
          ELSE [download |-> TRUE, reason |-> "Duration > 30 min and not a resumen"]

----------------------------------------------------------------------------
(* state.js: the tracking collections.  A tracking file is absent, holds *)
(* no bytes, holds text that is not JSON, holds a JSON value that is not   *)
(* an array, or holds a JSON array; an operation on a file yields the file *)
(* it leaves.                                                               *)

ArrayFile(data) == [kind |-> "array", data |-> data]

\* Of the files that hold no array, fs.pathExists is false for "missing",
\* fs.readJson with throws: false yields null for "empty" and "invalid" and
\* a value that fails Array.isArray for "object".
\* str.split(/\s+/), from position i on, cur being the part under way.
RECURSIVE splitLoop(_, _, _, _)
splitLoop(str, i, cur, acc) ==
  IF i > Len(str) THEN Append(acc, cur)
  ELSE IF ~IsWs(str[i]) THEN splitLoop(str, i + 1, Append(cur, str[i]), acc)
  ELSE IF i > 1 /\ IsWs(str[i - 1]) THEN splitLoop(str, i + 1, cur, acc)
  ELSE splitLoop(str, i + 1, <<>>, Append(acc, cur))

\* The archive with every line that holds a token taken for a record.
getDownloadedSetOfAnyLine(file) ==
  IF file.kind = "missing" THEN {}
  ELSE {parts[Len(parts)] :
          parts \in {q \in {splitLoop(trim(file.lines[k]), 1, <<>>, <<>>) :
                                k \in 1..Len(file.lines)} :
                       Len(q) >= 1 /\ Truthy(q[Len(q)])}}

\* The ids of an archive file, which is absent or holds lines (the content
\* split at the line feeds).
getDownloadedSet(file) ==
  IF file.kind = "missing" THEN {}
  ELSE {parts[Len(parts)] :
          parts \in {q \in {splitLoop(trim(file.lines[k]), 1, <<>>, <<>>) :
                                k \in 1..Len(file.lines)} :
                       Len(q) >= 2 /\ Truthy(q[Len(q)])}}

\* What initTracking leaves of a tracking file: ensureFile creates an absent
\* file with no bytes, a file of no bytes is given the empty array, and a
\* file fs.readJson cannot parse is overwritten with the empty array.
initTracking(file) ==
  IF file.kind \in {"missing", "empty"} THEN ArrayFile(<<>>)
  ELSE IF file.kind = "invalid" THEN ArrayFile(<<>>)
  ELSE file

\* A read that takes every file for one that holds no array.
readTrackingJsonNothing(file) == <<>>

readTrackingJson(file) ==
  IF file.kind = "missing" THEN <<>>
  ELSE IF file.kind # "array" THEN <<>>
  ELSE file.data

writeTrackingJson(file, data) == ArrayFile(data)

\* An addition that writes the entry over what the file holds.
addTrackingEntryOverwriting(file, entry) == writeTrackingJson(file, <<entry>>)

\* An addition that leaves alone a file that holds no array.
addTrackingEntryToArrayOnly(file, entry) ==
  IF file.kind = "array"
    THEN writeTrackingJson(file, Append(readTrackingJson(file), entry))
    ELSE file

\* An addition that puts the entry in the place of the first entry with its
\* id, when there is one.
addTrackingEntryReplacingSameId(file, entry) ==
  LET entries == readTrackingJson(file)
  IN IF \E k \in 1..Len(entries) : Get(entries[k], "id") = Get(entry, "id")
       THEN writeTrackingJson(file,
              [entries EXCEPT ![CHOOSE k \in 1..Len(entries) :
                                  /\ Get(entries[k], "id") = Get(entry, "id")
                                  /\ \A j \in 1..(k - 1) :
                                       Get(entries[j], "id") # Get(entry, "id")]
                              = entry])
       ELSE writeTrackingJson(file, Append(entries, entry))

addTrackingEntry(file, entry) ==
  writeTrackingJson(file, Append(readTrackingJson(file), entry))

getTrackingIds(file) ==
  LET entries == readTrackingJson(file)
  IN {entries[i].id : i \in {k \in 1..Len(entries) : Truthy(Get(entries[k], "id"))}}

\* What a process that dies inside writeTrackingJson may leave: fs.writeJson
\* opens the file itself for writing, which truncates it, and then writes the
\* text, so the file holds the old content (not yet opened), no bytes, a
\* part of the new text, or the new text.
writeTrackingJsonCut(file, data) ==
  {file, [kind |-> "empty"], [kind |-> "invalid"], writeTrackingJson(file, data)}

\* A removal that keeps the entries of the id and drops the others.
removeTrackingEntryByIdKeepsOnlyId(file, videoId) ==
  IF ~Truthy(videoId) THEN file
  ELSE LET entries == readTrackingJson(file)
           filteredEntries == SelectSeq(entries, LAMBDA entry : Get(entry, "id") = videoId)
       IN IF Len(entries) - Len(filteredEntries) > 0
            THEN writeTrackingJson(file, filteredEntries)
            ELSE file

removeTrackingEntryById(file, videoId) ==
  IF ~Truthy(videoId) THEN file
  ELSE LET entries == readTrackingJson(file)
           filteredEntries == SelectSeq(entries, LAMBDA entry : Get(entry, "id") # videoId)
       IN IF Len(entries) - Len(filteredEntries) > 0
            THEN writeTrackingJson(file, filteredEntries)
            ELSE file

----------------------------------------------------------------------------
(* The world of the model: the catalog (conjuntos.json) and the videos the *)
(* metadata source knows.                                                   *)

Catalog ==
  << << <<"M","u","r","g","a","s">>,
        << <<"C","a","y","o_acute">>, <<"M","o","m","o">> >> >>,
     << <<"P","a","r","o","d","i","s","t","a","s">>,
        << <<"Z","i","n","g","a","r","o","s">> >> >> >>

\* v1: general format, Liguilla, long.      v2: explicit dated format,
\* Primera Rueda, short.   v3: general format, Liguilla, another year, short.
\* v4: a group and no year, no duration in its metadata.   v5: blacklisted
\* keyword.   v6: platform placeholder.   v7: general format, Segunda Rueda,
\* long.
Videos ==
  << [id |-> <<"v","1">>, url |-> <<"u","1">>, duration |-> 3600,
      title |-> <<"C","a","y","o"," ","2","0","2","0"," ","L","i","g","u","i","l","l","a">>],
     [id |-> <<"v","2">>, url |-> <<"u","2">>, duration |-> 600,
      title |-> <<"4","t","a"," ","E","t","a","p","a"," ","2","0","2","0"," ","-"," ",
                  "C","a","y","o"," ","-"," ","P","r","i","m","e","r","a"," ","R","u","e","d","a">>],
     [id |-> <<"v","3">>, url |-> <<"u","3">>, duration |-> 600,
      title |-> <<"C","a","y","o"," ","L","i","g","u","i","l","l","a"," ","2","0","1","9">>],
     [id |-> <<"v","4">>, url |-> <<"u","4">>,
      title |-> <<"M","o","m","o">>],
     [id |-> <<"v","5">>, url |-> <<"u","5">>, duration |-> 3600,
      title |-> <<"D","e","s","f","i","l","e"," ","2","0","2","0"," ","C","a","y","o">>],
     [id |-> <<"v","6">>, url |-> <<"u","6">>, duration |-> 3600,
      title |-> PrivateMarker],
     [id |-> <<"v","7">>, url |-> <<"u","7">>, duration |-> 3600,
      title |-> <<"C","a","y","o"," ","2","0","2","0"," ","S","e","g","u","n","d","a"," ","R","u","e","d","a">>] >>

VideoIndex == 1..Len(Videos)

\* An entry of a flat playlist listing: {id, title, url}.
Stub(i) == [id |-> Videos[i].id, title |-> Videos[i].title, url |-> Videos[i].url]

\* The full metadata youtubeDl returns for a video url: {id, title, duration}.
MetadataOf(url) ==
  LET v == Videos[CHOOSE i \in VideoIndex : Videos[i].url = url]
  IN [f \in DOMAIN v \ {"url"} |-> v[f]]

\* parseVideoTitle(title, config) for the titles of the model, computed once.
ParsedTitle == [i \in VideoIndex |-> parseVideoTitle(Videos[i].title, Catalog)]

ParseTitle(title) == ParsedTitle[CHOOSE i \in VideoIndex : Videos[i].title = title]

MaxListing == 3

\* The listings the metadata source may return: the sequences of at most
\* MaxListing distinct videos.
RECURSIVE ListingsOfLen(_)
ListingsOfLen(n) ==
  IF n = 0 THEN {<<>>}
  ELSE {Append(l, i) : l \in ListingsOfLen(n - 1), i \in VideoIndex} 

Listings ==
  {[k \in 1..Len(l) |-> Stub(l[k])] :
     l \in {m \in UNION {ListingsOfLen(n) : n \in 0..MaxListing} :
              \A a, b \in 1..Len(m) : a # b => m[a] # m[b]}}

ForcedYears == {NULL, <<"2","0","2","0">>}

\* The metadata fetch of one video: it throws, returns the full metadata, or
\* returns metadata that lacks the id.
MetaKinds == {"error", "full", "noid"}

FetchMetadata(url, kind) ==
  IF kind = "noid"
    THEN [f \in DOMAIN MetadataOf(url) \ {"id"} |-> MetadataOf(url)[f]]
    ELSE MetadataOf(url)

\* downloader.js downloadVideo: "throw" when the NFO data is incomplete,
\* else "true" or "false" as yt-dlp exits with 0 or not (execOK).
downloadVideo(videoInfo, conjunto, year, execOK) ==
  IF conjunto = NullConjunto \/ ~Truthy(year) THEN "throw"
  ELSE IF ~Truthy(Get(videoInfo, "id")) THEN "throw"
  ELSE IF execOK THEN "true" ELSE "false"

\* An archive to which yt-dlp adds the id whatever comes of the download.
archiveAfterWhateverOutcome(ids, videoInfo, success) == ids \cup {videoInfo.id}

\* The ids of the archive file after downloadVideo has returned success:
\* yt-dlp, run with --download-archive, appends the id of a video it has
\* downloaded.  Nothing else writes the file.
archiveAfter(ids, videoInfo, success) ==
  IF success = "true" THEN ids \cup {videoInfo.id} ELSE ids

\* obj with field duration: value only when value is defined (JSON drops an
\* undefined field).
WithDuration(obj, videoInfo) ==
  IF "duration" \in DOMAIN videoInfo
    THEN obj @@ [duration |-> videoInfo.duration] ELSE obj

\* {...item, ...fields}
Spread(item, fields) == fields @@ item

----------------------------------------------------------------------------
(* processor.js processChannel, pass 1: collection *)

\* The effective year as processSingleVideo computes it: the forced year is
\* used only when the title gave none.
effectiveYearChannelKeepsParsed(parsedYear, fy) ==
  IF ~Truthy(parsedYear) /\ Truthy(fy) THEN fy
  ELSE IF ~Truthy(parsedYear) THEN NULL ELSE parsedYear

\* 2. Determine effective year
effectiveYearChannel(parsedYear, fy) ==
  IF Truthy(fy)
    THEN IF ~Truthy(parsedYear) THEN fy
         ELSE IF parsedYear # fy THEN fy
         ELSE parsedYear
    ELSE IF ~Truthy(parsedYear) THEN NULL ELSE parsedYear

\* "Could not reliably identify " + missing.join(" and ") + ... ; the title
\* the message quotes is the entry's title field.
collectionReason(parsedInfo, effectiveYear) ==
  IF parsedInfo.conjunto = NullConjunto /\ ~Truthy(effectiveYear)
    THEN "Could not reliably identify conjunto and year (from title or --year flag) (during collection pass)"
  ELSE IF parsedInfo.conjunto = NullConjunto
    THEN "Could not reliably identify conjunto (during collection pass)"
  ELSE "Could not reliably identify year (from title or --year flag) (during collection pass)"

collectionIgnoredEntry(videoStub, parsedInfo, effectiveYear, fy) ==
  [id |-> videoStub.id, title |-> videoStub.title, url |-> videoStub.url,
   reason |-> collectionReason(parsedInfo, effectiveYear),
   parsedInfoRaw |-> parsedInfo, forcedYearProvided |-> fy]

\* The potential video with the archive lookup left out.
potentialVideoNeverDownloaded(videoStub, parsedInfo, effectiveYear, dlSet) ==
  [id |-> videoStub.id, url |-> videoStub.url, title |-> videoStub.title,
   parsedInfo |-> [year |-> effectiveYear, conjunto |-> parsedInfo.conjunto,
                   round |-> parsedInfo.round],
   roundPriority |-> getRoundPriority(parsedInfo.round),
   isDownloaded |-> FALSE]

potentialVideoOf(videoStub, parsedInfo, effectiveYear, dlSet) ==
  [id |-> videoStub.id, url |-> videoStub.url, title |-> videoStub.title,
   parsedInfo |-> [year |-> effectiveYear, conjunto |-> parsedInfo.conjunto,
                   round |-> parsedInfo.round],
   roundPriority |-> getRoundPriority(parsedInfo.round),
   isDownloaded |-> videoStub.id \in dlSet]

\* potentialVideosMap is Map<year, Map<conjuntoName, potentialVideo[]>>: a
\* sequence, in insertion order, of [year, groups], groups a sequence, in
\* insertion order, of [name, videos].
\* Index of the entry of seq whose field key holds value (0 when none).
IndexWhere(seq, key, value) ==
  IF \E k \in 1..Len(seq) : seq[k][key] = value
    THEN SetMin({k \in 1..Len(seq) : seq[k][key] = value}) ELSE 0

mapAdd(map, year, conjuntoName, potentialVideo) ==
  LET yi == IndexWhere(map, "year", year)
  IN IF yi = 0
       THEN Append(map, [year |-> year,
                         groups |-> << [name |-> conjuntoName,
                                        videos |-> <<potentialVideo>>] >>])
       ELSE LET gi == IndexWhere(map[yi].groups, "name", conjuntoName)
            IN IF gi = 0
                 THEN [map EXCEPT ![yi].groups =
                         Append(@, [name |-> conjuntoName, videos |-> <<potentialVideo>>])]
                 ELSE [map EXCEPT ![yi].groups[gi].videos = Append(@, potentialVideo)]

\* The (year, conjuntoName) buckets in the order the two nested loops of pass
\* 2 visit them.
RECURSIVE bucketList(_)
bucketList(map) ==
  IF map = <<>> THEN <<>>
  ELSE [k \in 1..Len(Head(map).groups) |->
          [year |-> Head(map).year, name |-> Head(map).groups[k].name,
           videos |-> Head(map).groups[k].videos]]
       \o bucketList(Tail(map))

\* The title check without the private-video marker.
isSpecialTitleButPrivate(title) ==
  \/ ~Truthy(title)
  \/ startsWith(title, DeletedMarker)

\* The title check at the head of the collection loop.
isSpecialTitle(title) ==
  \/ ~Truthy(title)
  \/ startsWith(title, PrivateMarker)
  \/ startsWith(title, DeletedMarker)

----------------------------------------------------------------------------
(* processor.js processChannel, pass 2: selection *)

\* 1. Find the video with the ABSOLUTE highest priority in this group: the
\* loop from index i on, cur being absoluteHighestPriorityVideo so far.
\* The loop with >= for >: among equal priorities the last one is kept.
RECURSIVE highestLoopKeepsLast(_, _, _)
highestLoopKeepsLast(videosForConjunto, i, cur) ==
  IF i > Len(videosForConjunto) THEN cur
  ELSE highestLoopKeepsLast(videosForConjunto, i + 1,
                            IF videosForConjunto[i].roundPriority >= cur.roundPriority
                              THEN videosForConjunto[i] ELSE cur)

\* The loop with < for >: the lowest priority is kept.
RECURSIVE highestLoopKeepsLowest(_, _, _)
highestLoopKeepsLowest(videosForConjunto, i, cur) ==
  IF i > Len(videosForConjunto) THEN cur
  ELSE highestLoopKeepsLowest(videosForConjunto, i + 1,
                              IF videosForConjunto[i].roundPriority < cur.roundPriority
                                THEN videosForConjunto[i] ELSE cur)

RECURSIVE highestLoop(_, _, _)
highestLoop(videosForConjunto, i, cur) ==
  IF i > Len(videosForConjunto) THEN cur
  ELSE highestLoop(videosForConjunto, i + 1,
                   IF videosForConjunto[i].roundPriority > cur.roundPriority
                     THEN videosForConjunto[i] ELSE cur)

absoluteHighestPriorityVideo(videosForConjunto) ==
  highestLoop(videosForConjunto, 2, videosForConjunto[1])

channelCheckLaterEntry(chosenVideo, videoInfo, decision) ==
  WithDuration(
    [id |-> chosenVideo.id, title |-> videoInfo.title, url |-> chosenVideo.url,
     reason |-> decision.reason, conjunto |-> chosenVideo.parsedInfo.conjunto,
     year |-> chosenVideo.parsedInfo.year, round |-> chosenVideo.parsedInfo.round],
    videoInfo)

\* The failed entry without the error message.
channelFailedEntryWithoutMessage(chosenVideo, title, error) ==
  [id |-> chosenVideo.id, title |-> title, url |-> chosenVideo.url,
   year |-> chosenVideo.parsedInfo.year,
   conjunto |-> chosenVideo.parsedInfo.conjunto,
   round |-> chosenVideo.parsedInfo.round]

channelFailedEntry(chosenVideo, title, error) ==
  [id |-> chosenVideo.id, title |-> title, url |-> chosenVideo.url,
   error |-> error, year |-> chosenVideo.parsedInfo.year,
   conjunto |-> chosenVideo.parsedInfo.conjunto,
   round |-> chosenVideo.parsedInfo.round]

----------------------------------------------------------------------------
(* State.  One behaviour is one invocation of the command line program.    *)

VARIABLES
  mode,                 \* the action option: "channel", "video", "checkLater"
  archive,              \* the ids the archive file downloaded.txt lists
  ignored,              \* ignored.json
  failed,               \* failed.json
  checkLater,           \* check_later.json
  pc,                   \* "start", "pass1", "pass2", "checkLater", "done"
  result,               \* "running", "completed", "threw"
  status,               \* what processSingleVideo returned, "none" before
  forcedYear,           \* the --year option, or NULL
  listing,              \* channelInfo.entries
  downloadedSet,        \* the in-memory ArchiveSet, loaded at start-up
  failedSet,            \* the ids of failed.json, loaded when processing starts
  idx,                  \* pass 1 / check-later: index of the next item
  potentialVideosMap,   \* the buckets collected by pass 1
  gidx,                 \* pass 2: index of the next bucket
  checkLaterItems,      \* check-later: the list read at the start
  remainingCheckLater,  \* check-later: the entries to keep
  initial,              \* history: the files as the invocation found them
  fetched,              \* history: urls whose full metadata was requested
  handed,               \* history: ids handed to downloadVideo
  downloads,            \* history: the calls of downloadVideo in order, each
                        \* with what it returned
  selections,           \* history: per bucket of pass 2, its videos and the
                        \* absoluteHighestPriorityVideo chosen
  outcomes,             \* per bucket of pass 2, what the metadata source and
                        \* the downloader did for its chosen video
  firstRun,             \* when the same channel run is made again: the files
                        \* and the outcomes the first run ended with
  store,                \* the state store by itself: a tracking file
  archiveText,          \* the state store by itself: an archive file
  lastOp,               \* the state store by itself: the last operation, the
                        \* file it found and what it returned
  call                  \* the parser by itself: the function called, its
                        \* arguments and what it returned

runVars ==
  <<mode, archive, ignored, failed, checkLater, pc, result, status, forcedYear,
    listing, downloadedSet, failedSet, idx, potentialVideosMap, gidx,
    checkLaterItems, remainingCheckLater, initial, fetched, handed, downloads, selections,
    outcomes, firstRun>>

vars == <<runVars, store, archiveText, lastOp, call>>

files == <<archive, ignored, failed, checkLater>>

history == <<initial, fetched, handed, downloads, selections>>

channelLocals == <<listing, idx, potentialVideosMap, gidx>>

checkLaterLocals == <<checkLaterItems, remainingCheckLater>>

storeVars == <<store, archiveText, lastOp>>

\* The candidate pass 1 builds for video i when nothing is archived.
CandidateOf(i) ==
  potentialVideoOf(Stub(i), ParsedTitle[i], ParsedTitle[i].year, {})

\* Entries of check_later.json: as a channel run wrote them for v3 and v2,
\* the first accepted by the operator ("download": true); an accepted entry
\* without title; an accepted entry the operator wrote by hand for v5.
deferredEntry(candidate, videoInfo) ==
  channelCheckLaterEntry(candidate, videoInfo,
                         shouldDownload(videoInfo, candidate.parsedInfo))

DeferredMarked ==
  deferredEntry(CandidateOf(3), MetadataOf(Videos[3].url)) @@ [download |-> TRUE]

DeferredUnmarked == deferredEntry(CandidateOf(2), MetadataOf(Videos[2].url))

DeferredInvalid ==
  [id |-> Videos[4].id, url |-> Videos[4].url, download |-> TRUE]

DeferredByHand ==
  [id |-> Videos[5].id, url |-> Videos[5].url, title |-> Videos[5].title,
   download |-> TRUE]

MaxDeferred == 3

RECURSIVE SeqsOfLen(_, _)
SeqsOfLen(S, n) ==
  IF n = 0 THEN {<<>>}
  ELSE {Append(q, x) : q \in SeqsOfLen(S, n - 1), x \in S}

\* check_later.json as a check-later run may find it: at most MaxDeferred
\* entries in any order (the collection is appended to without a check for
\* duplicates).
CheckLaterFiles ==
  {ArrayFile(data) :
     data \in UNION {SeqsOfLen({DeferredMarked, DeferredUnmarked,
                                DeferredInvalid, DeferredByHand}, n) :
                       n \in 0..MaxDeferred}}

\* The tracking files as the invocation finds them: absent, or as earlier
\* channel runs without --year may have left them.
TrackingFiles ==
  {[ignored |-> [kind |-> "missing"], failed |-> [kind |-> "missing"],
    checkLater |-> [kind |-> "missing"]],
   [ignored |->
      ArrayFile(<<collectionIgnoredEntry(Stub(4), ParsedTitle[4], NULL, NULL)>>),
    failed |->
      ArrayFile(
        << channelFailedEntry(CandidateOf(3), Videos[3].title,
                              "Processing error (metadata/check)"),
           channelFailedEntry(CandidateOf(1), Videos[1].title,
                              "downloadVideo returned false (likely yt-dlp exec error)") >>),
    checkLater |-> ArrayFile(<<DeferredUnmarked, DeferredMarked>>)]}

\* The invocation starts: initTracking and getDownloadedSet have run.
RunInit ==
  /\ mode \in {"channel", "video", "checkLater"}
  /\ archive \in SUBSET {Videos[1].id, Videos[3].id}
  /\ \E found \in TrackingFiles :
       /\ ignored = initTracking(found.ignored)
       /\ failed = initTracking(found.failed)
       /\ checkLater \in IF mode = "checkLater" THEN CheckLaterFiles
                         ELSE {initTracking(found.checkLater)}
  /\ pc = "start"
  /\ result = "running"
  /\ status = "none"
  /\ forcedYear = NULL
  /\ listing = <<>>
  /\ downloadedSet = archive
  /\ failedSet = {}
  /\ idx = 1
  /\ potentialVideosMap = <<>>
  /\ gidx = 1
  /\ checkLaterItems = <<>>
  /\ remainingCheckLater = <<>>
  /\ initial = [archive |-> archive, ignored |-> ignored, failed |-> failed,
                checkLater |-> checkLater]
  /\ fetched = {}
  /\ handed = {}
  /\ downloads = <<>>
  /\ selections = <<>>
  /\ outcomes = <<>>
  /\ firstRun = [done |-> FALSE]

Init ==
  /\ RunInit
  /\ store = [kind |-> "missing"]
  /\ archiveText = [kind |-> "missing"]
  /\ lastOp = [op |-> "none"]
  /\ call = [fn |-> "none"]

----------------------------------------------------------------------------
(* processChannel *)

\* The flat playlist fetch throws: processChannel rethrows.
ChannelListingFails ==
  /\ pc = "start" /\ mode = "channel"
  /\ \E fy \in ForcedYears : forcedYear' = fy
  /\ failedSet' = getTrackingIds(failed)
  /\ pc' = "done"
  /\ result' = "threw"
  /\ UNCHANGED <<mode, files, status, downloadedSet, channelLocals,
                 checkLaterLocals, history>>
  /\ UNCHANGED <<outcomes, firstRun, storeVars, call>>

\* The flat playlist fetch returns the entries l.
StartChannel ==
  /\ pc = "start" /\ mode = "channel"
  /\ \E fy \in ForcedYears, l \in Listings :
       /\ forcedYear' = fy
       /\ listing' = l
       /\ pc' = IF l = <<>> THEN "done" ELSE "pass1"
       /\ result' = IF l = <<>> THEN "completed" ELSE "running"
  /\ failedSet' = getTrackingIds(failed)
  /\ UNCHANGED <<mode, files, status, downloadedSet, idx, potentialVideosMap,
                 gidx, checkLaterLocals, history>>
  /\ UNCHANGED <<outcomes, firstRun, storeVars, call>>

\* Where the run stands after pass 1 has handled its last stub with map m.
afterPass1(m) == IF bucketList(m) = <<>> THEN "done" ELSE "pass2"

\* The check with the year left out.
unresolvedConjuntoOnly(parsedInfo, effectiveYear) ==
  parsedInfo.conjunto = NullConjunto

\* 3. Check if we have an effective year and a conjunto
unresolved(parsedInfo, effectiveYear) ==
  parsedInfo.conjunto = NullConjunto \/ ~Truthy(effectiveYear)

\* The body of the collection loop for videoStub: nothing for a placeholder
\* title, an ignored entry for an unresolved one, else a potential video.
collectVideo(videoStub, parsedInfo, effectiveYear) ==
  /\ ignored' =
       IF ~isSpecialTitle(videoStub.title) /\ unresolved(parsedInfo, effectiveYear)
         THEN addTrackingEntry(ignored,
                collectionIgnoredEntry(videoStub, parsedInfo, effectiveYear, forcedYear))
         ELSE ignored
  /\ potentialVideosMap' =
       IF isSpecialTitle(videoStub.title) \/ unresolved(parsedInfo, effectiveYear)
         THEN potentialVideosMap
         ELSE mapAdd(potentialVideosMap, effectiveYear, parsedInfo.conjunto.name,
                     potentialVideoOf(videoStub, parsedInfo, effectiveYear,
                                      downloadedSet))

collectParsed(videoStub, parsedInfo) ==
  collectVideo(videoStub, parsedInfo, effectiveYearChannel(parsedInfo.year, forcedYear))

\* One iteration of the collection loop, on listing[idx].
CollectStub ==
  /\ pc = "pass1"
  /\ collectParsed(listing[idx], ParseTitle(listing[idx].title))
  /\ idx' = idx + 1
  /\ pc' = IF idx = Len(listing) THEN afterPass1(potentialVideosMap') ELSE "pass1"
  /\ result' = IF idx = Len(listing) /\ afterPass1(potentialVideosMap') = "done"
                 THEN "completed" ELSE result
  /\ UNCHANGED <<mode, archive, failed, checkLater, status, forcedYear, listing,
                 downloadedSet, failedSet, gidx, checkLaterLocals, history>>
  /\ UNCHANGED <<outcomes, firstRun, storeVars, call>>

\* The bucket pass 2 is at, and the video it chooses there.
currentBucket == bucketList(potentialVideosMap)[gidx]

chosenVideo == absoluteHighestPriorityVideo(currentBucket.videos)

\* What every iteration of pass 2 does besides processing the chosen video.
groupStep ==
  /\ pc = "pass2"
  /\ selections' = Append(selections,
                          [year |-> currentBucket.year, name |-> currentBucket.name,
                           videos |-> currentBucket.videos, chosen |-> chosenVideo])
  /\ gidx' = gidx + 1
  /\ pc' = IF gidx = Len(bucketList(potentialVideosMap)) THEN "done" ELSE "pass2"
  /\ result' = IF gidx = Len(bucketList(potentialVideosMap)) THEN "completed"
               ELSE result
  /\ UNCHANGED <<mode, status, forcedYear, listing, downloadedSet, idx,
                 potentialVideosMap, checkLaterLocals, initial, firstRun, storeVars, call>>

\* What the collaborators do for the chosen video: fetch is "none" when the
\* metadata is not asked for, "error" when the fetch throws, else the kind
\* of metadata returned; execOK is yt-dlp's outcome.  A run made again meets
\* what the first run met.
collaborators(fetch, execOK) ==
  /\ outcomes' = Append(outcomes, [fetch |-> fetch, execOK |-> execOK])
  /\ firstRun.done => firstRun.outcomes[gidx] = [fetch |-> fetch, execOK |-> execOK]

\* 2. The absolute highest priority video is already downloaded: the group
\* is skipped.
GroupSkipped ==
  /\ groupStep
  /\ chosenVideo.isDownloaded
  /\ collaborators("none", FALSE)
  /\ UNCHANGED <<files, failedSet, fetched, handed, downloads>>

\* 5. The metadata fetch of the chosen video throws.
GroupFetchFails ==
  /\ groupStep
  /\ ~chosenVideo.isDownloaded
  /\ collaborators("error", FALSE)
  /\ fetched' = fetched \cup {chosenVideo.url}
  /\ failed' = addTrackingEntry(failed,
                 channelFailedEntry(chosenVideo, chosenVideo.title,
                                    "Processing error (metadata/check)"))
  /\ UNCHANGED <<archive, ignored, checkLater, failedSet, handed, downloads>>

deferChosen(videoInfo) ==
  /\ ~shouldDownload(videoInfo, chosenVideo.parsedInfo).download
  /\ checkLater' = addTrackingEntry(checkLater,
                     channelCheckLaterEntry(chosenVideo, videoInfo,
                       shouldDownload(videoInfo, chosenVideo.parsedInfo)))

\* shouldDownload says no: the chosen video is marked for check later.
GroupDeferred ==
  /\ groupStep
  /\ ~chosenVideo.isDownloaded
  /\ \E kind \in MetaKinds \ {"error"} :
       /\ collaborators(kind, FALSE)
       /\ deferChosen(FetchMetadata(chosenVideo.url, kind))
  /\ fetched' = fetched \cup {chosenVideo.url}
  /\ UNCHANGED <<archive, ignored, failed, failedSet, handed, downloads>>

\* What follows the call of downloadVideo, success being its outcome.
afterDownload(videoInfo, success) ==
  /\ downloads' = Append(downloads, [id |-> chosenVideo.id, success |-> success])
  /\ archive' = archiveAfter(archive, videoInfo, success)
  /\ failed' =
       IF success = "true"
         THEN IF chosenVideo.id \in failedSet
                THEN removeTrackingEntryById(failed, chosenVideo.id)
                ELSE failed
       ELSE IF success = "false"
         THEN addTrackingEntry(failed,
                channelFailedEntry(chosenVideo, videoInfo.title,
                  "downloadVideo returned false (likely yt-dlp exec error)"))
       ELSE addTrackingEntry(failed,
              channelFailedEntry(chosenVideo, videoInfo.title,
                                 "Download function error"))
  /\ failedSet' = IF success = "true" THEN failedSet \ {chosenVideo.id}
                  ELSE failedSet

downloadChosen(videoInfo, execOK) ==
  /\ shouldDownload(videoInfo, chosenVideo.parsedInfo).download
  /\ afterDownload(videoInfo,
                   downloadVideo(videoInfo, chosenVideo.parsedInfo.conjunto,
                                 chosenVideo.parsedInfo.year, execOK))

\* shouldDownload says yes: downloadVideo is called and returns true, returns
\* false or throws.
GroupDownload ==
  /\ groupStep
  /\ ~chosenVideo.isDownloaded
  /\ \E kind \in MetaKinds \ {"error"}, execOK \in BOOLEAN :
       /\ collaborators(kind, execOK)
       /\ downloadChosen(FetchMetadata(chosenVideo.url, kind), execOK)
  /\ fetched' = fetched \cup {chosenVideo.url}
  /\ handed' = handed \cup {chosenVideo.id}
  /\ UNCHANGED <<ignored, checkLater>>

\* The same channel run is made again: the same listing and --year, the
\* archive as the first run found it, the tracking files as the first run
\* left them.  Processing starts as in StartChannel.
RunAgain ==
  /\ pc = "done" /\ mode = "channel" /\ result = "completed"
  /\ ~firstRun.done
  /\ archive = initial.archive
  /\ firstRun' = [done |-> TRUE, ignored |-> ignored, failed |-> failed,
                  checkLater |-> checkLater, outcomes |-> outcomes]
  /\ outcomes' = <<>>
  /\ initial' = [archive |-> archive, ignored |-> ignored, failed |-> failed,
                 checkLater |-> checkLater]
  /\ fetched' = {} /\ handed' = {} /\ downloads' = <<>> /\ selections' = <<>>
  /\ downloadedSet' = archive
  /\ failedSet' = getTrackingIds(failed)
  /\ idx' = 1 /\ potentialVideosMap' = <<>> /\ gidx' = 1
  /\ pc' = IF listing = <<>> THEN "done" ELSE "pass1"
  /\ result' = IF listing = <<>> THEN "completed" ELSE "running"
  /\ UNCHANGED <<mode, files, status, forcedYear, listing, checkLaterLocals,
                 storeVars, call>>

ChannelNext ==
  \/ ChannelListingFails
  \/ StartChannel
  \/ CollectStub
  \/ GroupSkipped
  \/ GroupFetchFails
  \/ GroupDeferred
  \/ GroupDownload

----------------------------------------------------------------------------
(* processSingleVideo *)

\* obj with field id: videoInfo.id only when the metadata has an id.
WithId(obj, videoInfo) ==
  IF "id" \in DOMAIN videoInfo THEN obj @@ [id |-> videoInfo.id] ELSE obj

\* The effective year as processChannel computes it: a forced year wins.
effectiveYearSingleForced(parsedYear, fy) ==
  IF Truthy(fy) THEN fy ELSE parsedYear

\* 4. Determine effective year
effectiveYearSingle(parsedYear, fy) ==
  IF ~Truthy(parsedYear) /\ Truthy(fy) THEN fy ELSE parsedYear

singleReason(parsedInfo, effectiveYear) ==
  IF ~Truthy(effectiveYear) /\ parsedInfo.conjunto = NullConjunto
    THEN "Could not identify year (or provided --year) or conjunto"
  ELSE IF ~Truthy(effectiveYear)
    THEN "Could not identify year (or provided --year)"
  ELSE "Could not identify conjunto"

singleIgnoredEntry(videoInfo, videoUrl, parsedInfo, effectiveYear, fy) ==
  WithId([title |-> videoInfo.title, url |-> videoUrl,
          reason |-> singleReason(parsedInfo, effectiveYear),
          parsedInfoRaw |-> parsedInfo, forcedYearAttempted |-> fy],
         videoInfo)

singleCheckLaterEntry(videoInfo, videoUrl, parsedInfo, effectiveYear, decision) ==
  WithDuration(
    WithId([title |-> videoInfo.title, url |-> videoUrl, reason |-> decision.reason,
            conjunto |-> parsedInfo.conjunto, year |-> effectiveYear,
            round |-> parsedInfo.round],
           videoInfo),
    videoInfo)

singleFailedEntry(videoInfo, videoUrl, parsedInfo, effectiveYear, error) ==
  WithId([title |-> videoInfo.title, url |-> videoUrl, error |-> error,
          conjunto |-> parsedInfo.conjunto, year |-> effectiveYear,
          round |-> parsedInfo.round],
         videoInfo)

\* The entry the outer catch writes when the metadata fetch throws.
singleErrorData(videoUrl, fy) ==
  [id |-> <<"U","n","k","n","o","w","n"," ","I","D">>,
   title |-> <<"U","n","k","n","o","w","n"," ","T","i","t","l","e">>, url |-> videoUrl,
   error |-> "Processing error", forcedYearAttempted |-> fy]

\* What processSingleVideo returns and leaves in the files when it touches
\* nothing ("failed" is the status of every path that records a failure).
untouched ==
  [status |-> "failed", archive |-> archive, ignored |-> ignored,
   failed |-> failed, checkLater |-> checkLater, handed |-> handed,
   downloads |-> downloads]

\* 8. Download video: success is downloadVideo's outcome.
singleDownloaded(videoInfo, videoUrl, parsedInfo, effectiveYear, fSet, success) ==
  IF success = "true"
    THEN [untouched EXCEPT !.status = "downloaded",
            !.handed = handed \cup {MetadataOf(videoUrl).id},
            !.downloads = Append(downloads, [id |-> MetadataOf(videoUrl).id,
                                           success |-> success]),
            !.archive = archiveAfter(archive, videoInfo, success),
            !.failed = IF videoInfo.id \in fSet
                         THEN removeTrackingEntryById(failed, videoInfo.id)
                         ELSE failed]
  ELSE [untouched EXCEPT
          !.handed = handed \cup {MetadataOf(videoUrl).id},
          !.downloads = Append(downloads, [id |-> MetadataOf(videoUrl).id,
                                           success |-> success]),
          !.failed = addTrackingEntry(failed,
            singleFailedEntry(videoInfo, videoUrl, parsedInfo, effectiveYear,
              IF success = "false"
                THEN "downloadVideo returned false (likely yt-dlp exec error)"
                ELSE "Download function error"))]

\* 6. Check if video should be downloaded
singleDecided(videoInfo, videoUrl, parsedInfo, effectiveYear, fSet, execOK, downloadDecision) ==
  IF ~downloadDecision.download
    THEN [untouched EXCEPT !.status = "check_later",
            !.checkLater = addTrackingEntry(checkLater,
              singleCheckLaterEntry(videoInfo, videoUrl, parsedInfo, effectiveYear,
                                    downloadDecision))]
    ELSE singleDownloaded(videoInfo, videoUrl, parsedInfo, effectiveYear, fSet,
           downloadVideo(videoInfo, parsedInfo.conjunto, effectiveYear, execOK))

\* 5. Check if we have an effective year and a conjunto
singleResolved(videoInfo, videoUrl, fy, parsedInfo, effectiveYear, fSet, execOK) ==
  IF ~Truthy(effectiveYear) \/ parsedInfo.conjunto = NullConjunto
    THEN [untouched EXCEPT !.status = "ignored",
            !.ignored = addTrackingEntry(ignored,
              singleIgnoredEntry(videoInfo, videoUrl, parsedInfo, effectiveYear, fy))]
    ELSE singleDecided(videoInfo, videoUrl, parsedInfo, effectiveYear, fSet, execOK,
           shouldDownload(videoInfo,
             [year |-> effectiveYear, conjunto |-> parsedInfo.conjunto,
              round |-> parsedInfo.round,
              isAlternativeFormat |-> parsedInfo.isAlternativeFormat]))

\* 3. Parse video title
singleParsed(videoInfo, videoUrl, fy, parsedInfo, fSet, execOK) ==
  singleResolved(videoInfo, videoUrl, fy, parsedInfo,
                 effectiveYearSingle(parsedInfo.year, fy), fSet, execOK)

singleFetched(videoInfo, videoUrl, fy, fSet, execOK) ==
  singleParsed(videoInfo, videoUrl, fy, ParseTitle(videoInfo.title), fSet, execOK)

\* processSingleVideo with an outer catch that records nothing.
singleOutcomeCatchRecordsNothing(videoUrl, fy, kind, execOK, fSet) ==
  IF kind = "error" THEN untouched
  ELSE singleFetched(FetchMetadata(videoUrl, kind), videoUrl, fy, fSet, execOK)

\* The whole of processSingleVideo on videoUrl: what it returns and what the
\* files hold afterwards.
singleOutcome(videoUrl, fy, kind, execOK, fSet) ==
  IF kind = "error"
    THEN [untouched EXCEPT !.failed =
            addTrackingEntry(failed, singleErrorData(videoUrl, fy))]
    ELSE singleFetched(FetchMetadata(videoUrl, kind), videoUrl, fy, fSet, execOK)

applyOutcome(out) ==
  /\ status' = out.status
  /\ archive' = out.archive
  /\ ignored' = out.ignored
  /\ failed' = out.failed
  /\ checkLater' = out.checkLater
  /\ handed' = out.handed
  /\ downloads' = out.downloads

SingleVideo ==
  /\ pc = "start" /\ mode = "video"
  /\ \E i \in VideoIndex, fy \in ForcedYears, kind \in MetaKinds, execOK \in BOOLEAN :
       /\ forcedYear' = fy
       /\ fetched' = fetched \cup {Videos[i].url}
       /\ applyOutcome(singleOutcome(Videos[i].url, fy, kind, execOK,
                                     getTrackingIds(failed)))
  /\ failedSet' = getTrackingIds(failed)
  /\ pc' = "done"
  /\ result' = "completed"
  /\ UNCHANGED <<mode, downloadedSet, channelLocals, checkLaterLocals, initial,
                 selections>>
  /\ UNCHANGED <<outcomes, firstRun, storeVars, call>>

----------------------------------------------------------------------------
(* processCheckLater *)

\* The validity check without the title.
invalidItemIdUrlOnly(item) ==
  \/ ~Truthy(Get(item, "id"))
  \/ ~Truthy(Get(item, "url"))

\* if (!item || !item.id || !item.url || !item.title)
invalidItem(item) ==
  \/ ~Truthy(Get(item, "id"))
  \/ ~Truthy(Get(item, "url"))
  \/ ~Truthy(Get(item, "title"))

\* The marker check as item.download !== false: an entry without the field
\* counts as accepted.
markedItemUnlessRefused(item) ==
  ~("download" \in DOMAIN item /\ item.download = FALSE)

\* item.download === true
markedItem(item) == "download" \in DOMAIN item /\ item.download = TRUE

\* Prioritize data from check_later.json item if present
effectiveYearItem(item, parsedInfo) ==
  IF Truthy(Get(item, "year")) THEN item.year ELSE parsedInfo.year

effectiveConjuntoItem(item, parsedInfo) ==
  IF /\ "conjunto" \in DOMAIN item
     /\ Truthy(item.conjunto.name) /\ Truthy(item.conjunto.category)
    THEN item.conjunto ELSE parsedInfo.conjunto

\* typeof item.round === "string"
effectiveRoundItem(item, parsedInfo) ==
  IF "round" \in DOMAIN item /\ item.round # NULL THEN item.round
  ELSE parsedInfo.round

itemReason(effectiveYear, effectiveConjunto) ==
  IF ~Truthy(effectiveYear) /\ effectiveConjunto = NullConjunto
    THEN "Could not identify year or conjunto (from title or check_later item)"
  ELSE IF ~Truthy(effectiveYear)
    THEN "Could not identify year (from title or check_later item)"
  ELSE "Could not identify conjunto (from title or check_later item)"

itemIgnoredEntry(item, videoInfo, parsedInfo, effectiveYear, effectiveConjunto) ==
  Spread(item,
         [reason |-> itemReason(effectiveYear, effectiveConjunto),
          parsedInfoFromTitle |->
            [year |-> parsedInfo.year, conjuntoName |-> parsedInfo.conjunto.name,
             round |-> parsedInfo.round],
          currentTitle |-> videoInfo.title])

itemFailedEntry(item, videoInfo, error, effectiveYear, effectiveConjunto, effectiveRound) ==
  Spread(item,
         [error |-> error, currentTitle |-> videoInfo.title,
          effectiveYearUsed |-> effectiveYear,
          effectiveConjuntoUsed |-> effectiveConjunto.name,
          effectiveRoundUsed |-> effectiveRound])

itemFetchFailedEntry(item) ==
  Spread(item, [error |-> "Check_later metadata fetch error"])

\* The list is read and failed.json's ids are loaded; an empty list is
\* written back at once.
StartCheckLater ==
  /\ pc = "start" /\ mode = "checkLater"
  /\ failedSet' = getTrackingIds(failed)
  /\ checkLaterItems' = readTrackingJson(checkLater)
  /\ remainingCheckLater' = <<>>
  /\ idx' = 1
  /\ IF readTrackingJson(checkLater) = <<>>
       THEN /\ checkLater' = writeTrackingJson(checkLater, <<>>)
            /\ pc' = "done" /\ result' = "completed"
       ELSE /\ checkLater' = checkLater
            /\ pc' = "checkLater" /\ result' = result
  /\ UNCHANGED <<mode, archive, ignored, failed, status, forcedYear, listing,
                 downloadedSet, potentialVideosMap, gidx, history>>
  /\ UNCHANGED <<outcomes, firstRun, storeVars, call>>

\* What every iteration of the loop does besides handling its item; after
\* the last item the entries to keep are written to check_later.json.
itemStep(remaining) ==
  /\ pc = "checkLater"
  /\ remainingCheckLater' = remaining
  /\ idx' = idx + 1
  /\ IF idx = Len(checkLaterItems)
       THEN /\ checkLater' = writeTrackingJson(checkLater, remaining)
            /\ pc' = "done" /\ result' = "completed"
       ELSE /\ checkLater' = checkLater
            /\ pc' = pc /\ result' = result
  /\ UNCHANGED <<mode, status, forcedYear, listing, downloadedSet, failedSet,
                 potentialVideosMap, gidx, checkLaterItems, initial, selections>>

item == checkLaterItems[idx]

\* An invalid item, or one without "download": true, is kept.
ItemKept ==
  /\ pc = "checkLater"
  /\ invalidItem(item) \/ ~markedItem(item)
  /\ itemStep(Append(remainingCheckLater, item))
  /\ UNCHANGED <<archive, ignored, failed, fetched, handed, downloads>>
  /\ UNCHANGED <<outcomes, firstRun, storeVars, call>>

\* The item's id is in the ArchiveSet: nothing is done with it.
ItemAlreadyDownloaded ==
  /\ pc = "checkLater"
  /\ ~invalidItem(item) /\ markedItem(item)
  /\ item.id \in downloadedSet
  /\ itemStep(remainingCheckLater)
  /\ UNCHANGED <<archive, ignored, failed, fetched, handed, downloads>>
  /\ UNCHANGED <<outcomes, firstRun, storeVars, call>>

\* The metadata fetch throws.
ItemFetchFails ==
  /\ pc = "checkLater"
  /\ ~invalidItem(item) /\ markedItem(item)
  /\ item.id \notin downloadedSet
  /\ itemStep(remainingCheckLater)
  /\ fetched' = fetched \cup {item.url}
  /\ failed' = addTrackingEntry(failed, itemFetchFailedEntry(item))
  /\ UNCHANGED <<archive, ignored, handed, downloads>>
  /\ UNCHANGED <<outcomes, firstRun, storeVars, call>>

\* The item is handed to downloadVideo, success being its outcome.
itemDownloaded(videoInfo, effectiveYear, effectiveConjunto, effectiveRound, success) ==
  /\ handed' = handed \cup {item.id}
  /\ downloads' = Append(downloads, [id |-> item.id, success |-> success])
  /\ ignored' = ignored
  /\ archive' = archiveAfter(archive, videoInfo, success)
  /\ failed' =
       IF success = "true"
         THEN IF item.id \in failedSet
                THEN removeTrackingEntryById(failed, item.id)
                ELSE failed
       ELSE addTrackingEntry(failed,
              itemFailedEntry(item, videoInfo,
                IF success = "false"
                  THEN "Check_later processing error: downloadVideo returned false (likely yt-dlp exec error)"
                  ELSE "Check_later processing error",
                effectiveYear, effectiveConjunto, effectiveRound))

itemResolved(videoInfo, parsedInfo, effectiveYear, effectiveConjunto, effectiveRound, execOK) ==
  IF ~Truthy(effectiveYear) \/ effectiveConjunto = NullConjunto
    THEN /\ ignored' = addTrackingEntry(ignored,
                         itemIgnoredEntry(item, videoInfo, parsedInfo,
                                          effectiveYear, effectiveConjunto))
         /\ UNCHANGED <<archive, failed, handed, downloads>>
    ELSE itemDownloaded(videoInfo, effectiveYear, effectiveConjunto, effectiveRound,
           downloadVideo(videoInfo, effectiveConjunto, effectiveYear, execOK))

itemParsed(videoInfo, parsedInfo, execOK) ==
  itemResolved(videoInfo, parsedInfo, effectiveYearItem(item, parsedInfo),
               effectiveConjuntoItem(item, parsedInfo),
               effectiveRoundItem(item, parsedInfo), execOK)

itemFetched(videoInfo, execOK) ==
  itemParsed(videoInfo, ParseTitle(videoInfo.title), execOK)

\* The metadata is fetched: the item is ignored, or handed to downloadVideo.
ItemProcessed ==
  /\ pc = "checkLater"
  /\ ~invalidItem(item) /\ markedItem(item)
  /\ item.id \notin downloadedSet
  /\ itemStep(remainingCheckLater)
  /\ fetched' = fetched \cup {item.url}
  /\ \E kind \in MetaKinds \ {"error"}, execOK \in BOOLEAN :
       itemFetched(FetchMetadata(item.url, kind), execOK)
  /\ UNCHANGED <<outcomes, firstRun, storeVars, call>>

CheckLaterNext ==
  \/ StartCheckLater
  \/ ItemKept
  \/ ItemAlreadyDownloaded
  \/ ItemFetchFails
  \/ ItemProcessed

Next ==
  \/ ChannelNext
  \/ SingleVideo
  \/ CheckLaterNext

Spec == Init /\ [][Next]_vars

\* The runs, and the channel runs made a second time.
RerunSpec == Init /\ [][Next \/ RunAgain]_vars

----------------------------------------------------------------------------
(* The state store by itself: the operations of state.js on one tracking   *)
(* file and one archive file, whatever the files hold.                     *)

MaxLine == 4

MaxStore == 2

StoreEntries == {DeferredMarked, DeferredUnmarked, DeferredInvalid}

\* No run is under way.  The tracking file holds no array or an array of
\* at most MaxStore entries, or the archive file holds one or two lines of
\* at most MaxLine characters.
StoreInit ==
  /\ RunInit
  /\ mode = "channel" /\ archive = {} /\ ignored = ArrayFile(<<>>)
  /\ lastOp = [op |-> "none"]
  /\ call = [fn |-> "none"]
  /\ \/ /\ store \in
             {[kind |-> "missing"], [kind |-> "empty"], [kind |-> "invalid"],
              [kind |-> "object"]}
               \cup {ArrayFile(data) :
                       data \in UNION {SeqsOfLen(StoreEntries, n) :
                                         n \in 0..MaxStore}}
        /\ archiveText = [kind |-> "missing"]
     \/ /\ store = [kind |-> "missing"]
        /\ \E a, b \in UNION {SeqsOfLen({"y", " "}, n) : n \in 0..MaxLine} :
             archiveText \in {[kind |-> "text", lines |-> <<a>>],
                              [kind |-> "text", lines |-> <<a, b>>]}

\* An operation on the tracking file.
storeStep ==
  /\ archiveText.kind = "missing"
  /\ UNCHANGED <<runVars, archiveText, call>>

StoreInitTracking ==
  /\ storeStep
  /\ store' = initTracking(store)
  /\ lastOp' = [op |-> "initTracking", found |-> store]

StoreRead ==
  /\ storeStep
  /\ store' = store
  /\ lastOp' = [op |-> "read", found |-> store, returned |-> readTrackingJson(store)]

StoreAdd ==
  /\ storeStep
  /\ Len(readTrackingJson(store)) < MaxStore
  /\ \E entry \in StoreEntries :
       /\ store' = addTrackingEntry(store, entry)
       /\ lastOp' = [op |-> "add", found |-> store, entry |-> entry]

StoreRemove ==
  /\ storeStep
  /\ \E videoId \in {Videos[2].id, Videos[3].id, Videos[4].id, NULL, <<>>} :
       /\ store' = removeTrackingEntryById(store, videoId)
       /\ lastOp' = [op |-> "remove", found |-> store, videoId |-> videoId]

\* The process dies while addTrackingEntry writes.
StoreCrash ==
  /\ storeStep
  /\ Len(readTrackingJson(store)) < MaxStore
  /\ \E entry \in StoreEntries :
       /\ store' \in writeTrackingJsonCut(store,
                       Append(readTrackingJson(store), entry))
       /\ lastOp' = [op |-> "crash", found |-> store, entry |-> entry]

LoadArchive ==
  /\ UNCHANGED <<runVars, archiveText, store, call>>
  /\ lastOp.op = "none"
  /\ lastOp' = [op |-> "load", returned |-> getDownloadedSet(archiveText)]

StoreNext ==
  \/ StoreInitTracking
  \/ StoreRead
  \/ StoreAdd
  \/ StoreRemove
  \/ StoreCrash
  \/ LoadArchive

StoreSpec == StoreInit /\ [][StoreNext]_vars

----------------------------------------------------------------------------
(* The parser by itself: one behaviour is one call of normalizeString,     *)
(* calculateSimilarity, findBestConjuntoMatch, parseVideoTitle or          *)
(* getRoundPriority on arguments drawn from the sets below.                *)

MaxText == 3

MaxNames == 2

\* Short texts: two letters that differ, one of them a capital, and a space.
Texts == UNION {SeqsOfLen({"a", "B", " "}, n) : n \in 0..MaxText}

\* The pieces titles are made of.
\* ordinals: <ordinal>, possibly absent.
\* years: a year token the fallback accepts and one it does not.
\* names: the name of a group without and with its accent, a near miss
\*   above and one below 0.85, a text that is no group, white space, and a
\*   name followed by a blacklisted keyword.
\* rounds: phrases with one round keyword, with two, with none, with the
\*   name of a group, with a blacklisted keyword.
\* digits: the digit of the 2015 format.
\* excluded: what the exclusion filter looks for.
TitleParts ==
  [ordinals |->
     {<<>> ,
      <<"4","t","a"," ">>},
   years |->
     {<<"2","0","2","0">> ,
      <<"1","9","7","5">>},
   names |->
     {<<"C","a","y","o">> ,
      <<"C","a","y","o_acute">> ,
      <<"Z","i","n","g","a","r","o","z">> ,
      <<"Z","i","n","g","a","r","x","x">> ,
      <<"N","o","c","h","e">> ,
      <<" ">> ,
      <<"C","a","y","o"," ","D","e","s","f","i","l","e">>},
   rounds |->
     {<<"P","r","i","m","e","r","a"," ","R","u","e","d","a">> ,
      <<"2","d","a"," ","R","u","e","d","a"," ","F","i","n","a","l">> ,
      <<"L","i","g","u","i","l","l","a">> ,
      <<"L","i","g","u","i","l","l","a"," ","1","r","a"," ","R","u","e","d","a">> ,
      <<"F","i","n","a","l">> ,
      <<"C","a","y","o"," ","L","i","g","u","i","l","l","a">> ,
      <<"L","i","g","u","i","l","l","a"," ","L","l","a","m","a","d","a","s">>},
   digits |->
     {<<"3">> ,
      <<"6">> ,
      <<"7">> ,
      <<"0">>},
   excluded |->
     {<<"[","P","r","i","v","a","t","e"," ","v","i","d","e","o","]"," ">> ,
      <<"[","D","e","l","e","t","e","d"," ","v","i","d","e","o","]"," ">> ,
      <<"D","e","s","f","i","l","e"," ">> ,
      <<"L","l","a","m","a","d","a","s"," ">> ,
      <<"P","r","u","e","b","a"," ","d","e"," ","A","d","m","i","s","i","o_acute","n"," ">> ,
      <<"D","e","s","-","f","i","l","e"," ">>}]

\* "<ordinal> Etapa <year> - <name> - <round phrase>"
datedTitle(ordinal, year, name, roundPhrase) ==
  ordinal \o <<"E","t","a","p","a"," ">> \o year \o <<" ","-"," ">> \o name
          \o <<" ","-"," ">> \o roundPhrase

\* "<digit>[A] ETAPA <name> LIGUILLA"
legacyTitle(digit, letter, name) ==
  digit \o letter \o <<" ","E","T","A","P","A"," ">> \o name
        \o <<" ","L","I","G","U","I","L","L","A">>

\* The titles: none, the dated format, the undated format "<ordinal> Etapa -
\* <name> - <round phrase>", the 2015 format, "<name>[ <year>][ <round>]",
\* and the latter after and before what the exclusion filter looks for.
Titles ==
  LET plain ==
        {n \o (IF y = <<>> THEN <<>> ELSE <<" ">> \o y)
            \o (IF r = <<>> THEN <<>> ELSE <<" ">> \o r) :
           n \in TitleParts.names, y \in TitleParts.years \cup {<<>>},
           r \in {<<>>, <<"L","i","g","u","i","l","l","a">>,
                  <<"S","e","g","u","n","d","a"," ","R","u","e","d","a">>}}
  IN {NULL, <<>>}
       \cup {datedTitle(o, y, n, r) :
               o \in TitleParts.ordinals, y \in TitleParts.years,
               n \in TitleParts.names, r \in TitleParts.rounds}
       \cup {<<"4","t","a"," ","E","t","a","p","a"," ","-"," ">> \o n
               \o <<" ","-"," ">> \o r :
               n \in TitleParts.names, r \in TitleParts.rounds}
       \cup {legacyTitle(d, a, n) :
               d \in TitleParts.digits, a \in {<<>>, <<"A">>}, n \in TitleParts.names}
       \cup plain
       \cup {e \o t : e \in TitleParts.excluded, t \in plain}
       \cup {t \o <<" ">> \o e : e \in TitleParts.excluded, t \in plain}

\* Round labels: nothing, or one or two words.
Labels ==
  LET words ==
        {<<>>, <<"P","r","i","m","e","r","a">>, <<"1","r","a">>, <<"1","e","r","a">>, <<"S","e","g","u","n","d","a">>,
         <<"2","d","a">>, <<"L","i","g","u","i","l","l","a">>, <<"R","u","e","d","a">>, <<"F","i","n","a","l">>}
  IN {NULL} \cup {IF b = <<>> THEN a ELSE a \o <<" ">> \o b : a, b \in words}

\* The strings are made of three pieces: letters of either case, accented
\* letters precomposed or decomposed, white space, punctuation, a digit.
CallNormalizeString ==
  /\ call.fn = "none"
  /\ \E a, b, c \in {<<>>, <<"a">>, <<"B">>, <<"o_acute">>, <<"O_acute">>,
                     <<"o", "U+0301">>, <<" ">>, <<"'">>, <<"-">>, <<"_">>,
                     <<"3">>},
        nonString \in BOOLEAN :
       call' = [fn |-> "normalizeString",
                str |-> IF nonString THEN NULL ELSE a \o b \o c,
                returned |-> normalizeString(IF nonString THEN NULL
                                             ELSE a \o b \o c)]
  /\ UNCHANGED <<runVars, storeVars>>

CallCalculateSimilarity ==
  /\ call.fn = "none"
  /\ \E str1, str2 \in Texts \cup {NULL} :
       call' = [fn |-> "calculateSimilarity", str1 |-> str1, str2 |-> str2,
                returned |-> calculateSimilarity(str1, str2)]
  /\ UNCHANGED <<runVars, storeVars>>

\* The catalogs have two categories, the second of at most one name, over
\* names that contain one another or differ in case only; the thresholds are
\* a half and the parser's 0.85.
CallFindBestConjuntoMatch ==
  /\ call.fn = "none"
  /\ \E titlePart \in Texts \cup {NULL},
        conjuntos \in
          {<< <<<<"M">>, first>>, <<<<"P">>, second>> >> :
             first \in UNION {SeqsOfLen({<<"a">>, <<"a","b">>, <<"A","b">>}, n) : n \in 0..MaxNames},
             second \in {<<>>} \cup {<<name>> : name \in {<<"a">>, <<"a","b">>, <<"A","b">>}}},
        threshold \in {[num |-> 1, den |-> 2], ParserThreshold} :
       call' = [fn |-> "findBestConjuntoMatch", titlePart |-> titlePart,
                conjuntos |-> conjuntos, threshold |-> threshold,
                returned |-> findBestConjuntoMatch(titlePart, conjuntos, threshold)]
  /\ UNCHANGED <<runVars, storeVars>>

CallParseVideoTitle ==
  /\ call.fn = "none"
  /\ \E title \in Titles :
       call' = [fn |-> "parseVideoTitle", title |-> title,
                returned |-> parseVideoTitle(title, Catalog)]
  /\ UNCHANGED <<runVars, storeVars>>

CallGetRoundPriority ==
  /\ call.fn = "none"
  /\ \E roundName \in Labels :
       call' = [fn |-> "getRoundPriority", roundName |-> roundName,
                returned |-> getRoundPriority(roundName)]
  /\ UNCHANGED <<runVars, storeVars>>

ParserNext ==
  \/ CallNormalizeString
  \/ CallCalculateSimilarity
  \/ CallFindBestConjuntoMatch
  \/ CallParseVideoTitle
  \/ CallGetRoundPriority

\* No run is under way, no file is there and no function has been called.
ParserInit ==
  /\ StoreInit
  /\ store = [kind |-> "missing"]
  /\ archiveText = [kind |-> "missing"]

ParserSpec == ParserInit /\ [][ParserNext]_vars

----------------------------------------------------------------------------
(* Properties.  Helpers first. *)

\* The elements of a sequence.
Range(seq) == {seq[i] : i \in 1..Len(seq)}

\* Position of the stub with this id in the listing (ids of a listing are
\* distinct).
posInListing(id) == CHOOSE k \in 1..Len(listing) : listing[k].id = id

\* Number of entries of a collection that carry this id.
CountId(file, id) ==
  Cardinality({i \in 1..Len(file) : Get(file[i], "id") = id})

channelCompleted == mode = "channel" /\ pc = "done" /\ result = "completed"

\* ids of the members of a bucket of pass 2
memberIds(sel) == {sel.videos[k].id : k \in 1..Len(sel.videos)}

\* C1: in pass 2 of a channel run every non-empty bucket gets exactly one
\* chosen candidate; it is a member of the bucket, no member has a higher
\* roundPriority, and among the members with its roundPriority it is the
\* one that comes first in the listing.
C1_WinnerIsFirstMaximum ==
  /\ \A s \in 1..Len(selections) :
       /\ selections[s].chosen.id \in memberIds(selections[s])
       /\ \A k \in 1..Len(selections[s].videos) :
            /\ selections[s].videos[k].roundPriority
                 <= selections[s].chosen.roundPriority
            /\ selections[s].videos[k].roundPriority
                 = selections[s].chosen.roundPriority
                 => posInListing(selections[s].chosen.id)
                      <= posInListing(selections[s].videos[k].id)
  /\ channelCompleted =>
       /\ Len(selections) = Len(bucketList(potentialVideosMap))
       /\ \A s \in 1..Len(selections) :
            /\ selections[s].videos = bucketList(potentialVideosMap)[s].videos
            /\ selections[s].videos # <<>>

\* A bucket of three members: the first has a lower priority than the chosen
\* one, a later one ties with it.
C1_Witness ==
  /\ channelCompleted
  /\ \E s \in 1..Len(selections) :
       /\ Len(selections[s].videos) = 3
       /\ selections[s].videos[1].roundPriority < selections[s].chosen.roundPriority
       /\ selections[s].chosen = selections[s].videos[2]
       /\ selections[s].videos[3].roundPriority = selections[s].chosen.roundPriority

\* C2: once a bucket's winner has been processed, every other member of the
\* bucket has an entry of its own in the ignored collection, written by this
\* run (the entry that is to name the winner it lost to).
C2_LosersRecordedAsIgnored ==
  \A s \in 1..Len(selections) :
    \A k \in 1..Len(selections[s].videos) :
      selections[s].videos[k].id # selections[s].chosen.id
        => CountId(ignored.data, selections[s].videos[k].id)
             > CountId(initial.ignored.data, selections[s].videos[k].id)

\* C3: when the chosen video of a bucket has its id in the archive as the
\* run found it, no member of the bucket has its metadata fetched, none is
\* handed to downloadVideo, and none gets an entry in check_later.json or
\* failed.json.
C3_ArchivedWinnerYieldsNoWork ==
  \A s \in 1..Len(selections) :
    selections[s].chosen.id \in initial.archive
      => \A k \in 1..Len(selections[s].videos) :
           /\ selections[s].videos[k].url \notin fetched
           /\ selections[s].videos[k].id \notin handed
           /\ CountId(checkLater.data, selections[s].videos[k].id)
                = CountId(initial.checkLater.data, selections[s].videos[k].id)
           /\ CountId(failed.data, selections[s].videos[k].id)
                = CountId(initial.failed.data, selections[s].videos[k].id)

\* A completed channel run with a bucket of several members whose chosen
\* video was archived and another member was not.
C3_Witness ==
  /\ channelCompleted
  /\ \E s \in 1..Len(selections) :
       /\ selections[s].chosen.id \in initial.archive
       /\ \E k \in 1..Len(selections[s].videos) :
            /\ selections[s].videos[k].id \notin initial.archive
            /\ selections[s].videos[k].roundPriority
                 < selections[s].chosen.roundPriority

\* Recordings i and j are of the same (year, conjunto) performance, going by
\* their titles.
samePerformance(i, j) ==
  /\ ParsedTitle[i].conjunto # NullConjunto
  /\ Truthy(ParsedTitle[i].year)
  /\ ParsedTitle[i].conjunto = ParsedTitle[j].conjunto
  /\ ParsedTitle[i].year = ParsedTitle[j].year

priorityOfVideo(i) == getRoundPriority(ParsedTitle[i].round)

\* C4 as claimed: in any run, of any mode, that starts with the
\* highest-priority recording of a performance in the archive, no
\* lower-priority recording of that performance is handed to downloadVideo.
C4_InferiorNeverHandedInAnyRun ==
  \A i, j \in VideoIndex :
    /\ samePerformance(i, j)
    /\ \A k \in VideoIndex : samePerformance(i, k)
                               => priorityOfVideo(k) <= priorityOfVideo(i)
    /\ priorityOfVideo(j) < priorityOfVideo(i)
    /\ Videos[i].id \in initial.archive
    => Videos[j].id \notin handed

\* C4 amended: in a channel run, when a recording with the highest priority
\* of its bucket is in the archive as the run found it, no member of that
\* bucket with a lower priority is handed to downloadVideo.
C4_InferiorNotHandedInChannelRun ==
  \A b \in 1..Len(bucketList(potentialVideosMap)) :
    \A hi, lo \in 1..Len(bucketList(potentialVideosMap)[b].videos) :
      /\ bucketList(potentialVideosMap)[b].videos[hi].id \in initial.archive
      /\ \A k \in 1..Len(bucketList(potentialVideosMap)[b].videos) :
           bucketList(potentialVideosMap)[b].videos[k].roundPriority
             <= bucketList(potentialVideosMap)[b].videos[hi].roundPriority
      /\ bucketList(potentialVideosMap)[b].videos[lo].roundPriority
           < bucketList(potentialVideosMap)[b].videos[hi].roundPriority
      => bucketList(potentialVideosMap)[b].videos[lo].id \notin handed

\* A completed channel run with a bucket in which an archived recording ties
\* for the highest priority with the chosen one: the chosen one was handed
\* to downloadVideo, a lower-priority member that is not archived was not.
C4_Witness ==
  /\ channelCompleted
  /\ \E s \in 1..Len(selections) :
       /\ selections[s].chosen.id \in handed
       /\ \E hi, lo \in 1..Len(selections[s].videos) :
            /\ selections[s].videos[hi].id \in initial.archive
            /\ selections[s].videos[hi].roundPriority
                 = selections[s].chosen.roundPriority
            /\ selections[s].videos[lo].roundPriority
                 < selections[s].chosen.roundPriority
            /\ selections[s].videos[lo].id \notin initial.archive \cup handed

\* An entry of a collection for this id that carries a reason (failed.json
\* entries carry it in the field error).
hasRecord(file, id) ==
  \E i \in 1..Len(file) :
    /\ Get(file[i], "id") = id
    /\ "reason" \in DOMAIN file[i] \/ "error" \in DOMAIN file[i]

\* C5: when a channel run completes, every stub of the listing has its id
\* in the archive or in an entry, carrying a reason, of ignored.json,
\* failed.json or check_later.json.
C5_EveryStubHasRecord ==
  channelCompleted =>
    \A k \in 1..Len(listing) :
      \/ listing[k].id \in archive
      \/ hasRecord(ignored.data, listing[k].id)
      \/ hasRecord(failed.data, listing[k].id)
      \/ hasRecord(checkLater.data, listing[k].id)

\* The entries a run has appended to a collection.
appended(file, before) == SubSeq(file, Len(before) + 1, Len(file))

\* The videos of all buckets collected so far.
candidates == UNION {Range(bucketList(potentialVideosMap)[b].videos) :
                       b \in 1..Len(bucketList(potentialVideosMap))}

\* The stubs the collection loop has handled so far; their titles were
\* parsed unless they are placeholders.
collected == IF mode = "channel" THEN {listing[k] : k \in 1..(idx - 1)} ELSE {}

isPlaceholderTitle(title) ==
  \/ title = <<>>
  \/ startsWith(title, PrivateMarker)
  \/ startsWith(title, DeletedMarker)

groupUnresolved(stub) == ParseTitle(stub.title).conjunto = NullConjunto

yearUnresolved(stub) ==
  ParseTitle(stub.title).year = NULL /\ forcedYear = NULL

\* The reason names exactly the fields that are unresolved.
namesUnresolved(reason, group, year) ==
  reason =
    IF group /\ year
      THEN "Could not reliably identify conjunto and year (from title or --year flag) (during collection pass)"
    ELSE IF group
      THEN "Could not reliably identify conjunto (during collection pass)"
    ELSE "Could not reliably identify year (from title or --year flag) (during collection pass)"

\* C6: every candidate has a year and a conjunto and sits in the bucket
\* they name; a stub the collection loop has parsed is a candidate exactly
\* when both are resolved, and else ignored.json has got exactly one new
\* entry for it, whose reason names the unresolved field or fields.
C6_CandidateIffResolved ==
  /\ ignored.data = initial.ignored.data \o appended(ignored.data, initial.ignored.data)
  /\ \A b \in 1..Len(bucketList(potentialVideosMap)) :
       \A v \in Range(bucketList(potentialVideosMap)[b].videos) :
         /\ v.parsedInfo.year # NULL
         /\ v.parsedInfo.conjunto # NullConjunto
         /\ v.parsedInfo.conjunto.name # NULL
         /\ v.parsedInfo.year = bucketList(potentialVideosMap)[b].year
         /\ v.parsedInfo.conjunto.name = bucketList(potentialVideosMap)[b].name
  /\ \A stub \in collected :
       ~isPlaceholderTitle(stub.title) =>
         IF groupUnresolved(stub) \/ yearUnresolved(stub)
           THEN /\ \A v \in candidates : v.id # stub.id
                /\ CountId(appended(ignored.data, initial.ignored.data), stub.id) = 1
                /\ \A e \in Range(appended(ignored.data, initial.ignored.data)) :
                     e.id = stub.id
                       => namesUnresolved(e.reason, groupUnresolved(stub),
                                          yearUnresolved(stub))
           ELSE /\ \E v \in candidates : v.id = stub.id
                /\ CountId(appended(ignored.data, initial.ignored.data), stub.id) = 0

\* Pass 1 has handled a listing with a stub that became a candidate, one
\* without a year and one without a conjunto.
C6_Witness ==
  /\ mode = "channel" /\ idx > Len(listing)
  /\ candidates # {}
  /\ \E a, b \in collected :
       /\ ~isPlaceholderTitle(a.title) /\ ~isPlaceholderTitle(b.title)
       /\ groupUnresolved(a)
       /\ yearUnresolved(b) /\ ~groupUnresolved(b)

\* C7: in a channel run with --year every candidate carries the forced year
\* and sits in a bucket of that year, whatever year its title gave, and no
\* new ignored entry names the year as unresolved; without --year every
\* candidate carries the year parsed from its title.
C7_ForcedYearWins ==
  mode = "channel" =>
    /\ \A b \in 1..Len(bucketList(potentialVideosMap)) :
         \A v \in Range(bucketList(potentialVideosMap)[b].videos) :
           /\ v.parsedInfo.year = bucketList(potentialVideosMap)[b].year
           /\ v.parsedInfo.year =
                IF forcedYear # NULL THEN forcedYear ELSE ParseTitle(v.title).year
    /\ forcedYear # NULL =>
         \A e \in Range(appended(ignored.data, initial.ignored.data)) :
           namesUnresolved(e.reason, TRUE, FALSE)

\* A completed channel run with --year whose candidates include one whose
\* title gave another year, one whose title gave the same year and one
\* whose title gave none.
C7_Witness ==
  /\ channelCompleted
  /\ forcedYear # NULL
  /\ \E a, b, c \in candidates :
       /\ ParseTitle(a.title).year \notin {NULL, forcedYear}
       /\ ParseTitle(b.title).year = forcedYear
       /\ ParseTitle(c.title).year = NULL

\* The titles of the model whose normalized form contains an excluded
\* keyword.
blacklistedTitles ==
  {Videos[i].title : i \in {j \in VideoIndex :
     \E k \in 1..Len(skipKeywords) :
       includes(normalizeString(Videos[j].title), skipKeywords[k])}}

isBlacklistedTitle(title) == title \in blacklistedTitles

\* The run has written no entry for the stub and has not made it a
\* candidate.
leftNoTrace(stub) ==
  /\ \A v \in candidates : v.id # stub.id
  /\ CountId(ignored.data, stub.id) = CountId(initial.ignored.data, stub.id)
  /\ CountId(failed.data, stub.id) = CountId(initial.failed.data, stub.id)
  /\ CountId(checkLater.data, stub.id) = CountId(initial.checkLater.data, stub.id)

\* C8 as claimed: a stub whose title is blacklisted or a placeholder is
\* skipped by the collection loop without an entry in any collection.
C8_BlacklistedAndPlaceholderLeaveNoEntry ==
  \A stub \in collected :
    isBlacklistedTitle(stub.title) \/ isPlaceholderTitle(stub.title)
      => leftNoTrace(stub)

\* C8 amended: a placeholder stub is skipped without an entry in any
\* collection; a blacklisted stub is no candidate and gets no entry in
\* failed.json or check_later.json, and exactly one new entry in
\* ignored.json.
C8_PlaceholderLeavesNoEntry ==
  \A stub \in collected :
    /\ isPlaceholderTitle(stub.title) => leftNoTrace(stub)
    /\ isBlacklistedTitle(stub.title) /\ ~isPlaceholderTitle(stub.title) =>
         /\ \A v \in candidates : v.id # stub.id
         /\ CountId(appended(ignored.data, initial.ignored.data), stub.id) = 1
         /\ CountId(failed.data, stub.id) = CountId(initial.failed.data, stub.id)
         /\ CountId(checkLater.data, stub.id) = CountId(initial.checkLater.data, stub.id)

\* A completed channel run whose listing held a placeholder and a
\* blacklisted title.
C8_Witness ==
  /\ channelCompleted
  /\ \E a, b \in collected :
       /\ isPlaceholderTitle(a.title)
       /\ isBlacklistedTitle(b.title) /\ ~isPlaceholderTitle(b.title)

\* The acceptance marker, and the structural validity, of a deferred entry.
hasMarker(e) == "download" \in DOMAIN e /\ e.download = TRUE

wellFormed(e) ==
  \A f \in {"id", "url", "title"} : f \in DOMAIN e /\ e[f] \notin {NULL, <<>>}

checkLaterCompleted == mode = "checkLater" /\ pc = "done" /\ result = "completed"

exactlyOne(a, b, c, d) ==
  /\ a \/ b \/ c \/ d
  /\ ~(a /\ b) /\ ~(a /\ c) /\ ~(a /\ d) /\ ~(b /\ c) /\ ~(b /\ d) /\ ~(c /\ d)

\* The dispositions of entry e in one step of a check-later run.
foundArchived(e) ==
  /\ e.id \in initial.archive
  /\ UNCHANGED <<archive, ignored, failed, fetched, handed, downloads>>

wasDownloaded(e) ==
  /\ e.id \notin initial.archive
  /\ e.id \in handed' /\ e.id \in archive'
  /\ ignored'.data = ignored.data
  /\ Len(failed'.data) <= Len(failed.data)

newlyIgnored(e) ==
  /\ Len(ignored'.data) = Len(ignored.data) + 1
  /\ SubSeq(ignored'.data, 1, Len(ignored.data)) = ignored.data
  /\ ignored'.data[Len(ignored'.data)].id = e.id
  /\ UNCHANGED <<archive, failed, handed, downloads>>

newlyFailed(e) ==
  /\ Len(failed'.data) = Len(failed.data) + 1
  /\ SubSeq(failed'.data, 1, Len(failed.data)) = failed.data
  /\ failed'.data[Len(failed'.data)].id = e.id
  /\ UNCHANGED <<archive, ignored>>

\* One step of any run, as C9 allows it.
deferredStep ==
  /\ mode # "checkLater" =>
       /\ Len(checkLater'.data) >= Len(checkLater.data)
       /\ SubSeq(checkLater'.data, 1, Len(checkLater.data)) = checkLater.data
  /\ mode = "checkLater" /\ pc = "checkLater" /\ idx' = idx + 1 =>
       IF wellFormed(checkLaterItems[idx]) /\ hasMarker(checkLaterItems[idx])
         THEN /\ remainingCheckLater' = remainingCheckLater
              /\ exactlyOne(foundArchived(checkLaterItems[idx]),
                            wasDownloaded(checkLaterItems[idx]),
                            newlyIgnored(checkLaterItems[idx]),
                            newlyFailed(checkLaterItems[idx]))
         ELSE /\ remainingCheckLater' = Append(remainingCheckLater, checkLaterItems[idx])
              /\ UNCHANGED <<archive, ignored, failed, fetched, handed, downloads>>

\* check_later.json in a check-later run: as found until the run completes;
\* then without any valid marked entry and with the others as often as found.
deferredFile ==
  mode = "checkLater" =>
    IF checkLaterCompleted
      THEN \A e \in Range(initial.checkLater.data) :
             Cardinality({k \in 1..Len(checkLater.data) : checkLater.data[k] = e})
               = IF wellFormed(e) /\ hasMarker(e) THEN 0
                 ELSE Cardinality({k \in 1..Len(initial.checkLater.data) :
                                     initial.checkLater.data[k] = e})
      ELSE checkLater.data = initial.checkLater.data

\* C9: channel and single-video runs only append to check_later.json; a
\* check-later run keeps every entry that is invalid or lacks
\* "download": true and does nothing else with it, and gives every valid
\* marked entry exactly one disposition (found archived, downloaded, newly
\* ignored, newly failed) and does not keep it; when the run completes
\* the file holds no valid marked entry and every other entry it held.
C9_DeferredEntriesLeaveOnlyProcessed == [][deferredStep]_vars /\ []deferredFile

\* A completed check-later run that found a valid marked entry and an
\* unmarked one, handed an entry to downloadVideo and ignored another.
C9_Witness ==
  /\ checkLaterCompleted
  /\ \E e \in Range(initial.checkLater.data) : ~hasMarker(e)
  /\ handed # {}
  /\ Len(ignored.data) > Len(initial.ignored.data)

keptEntry(e) == ~wellFormed(e) \/ ~hasMarker(e)

\* C10: after a completed check-later run check_later.json holds exactly
\* the entries it held that are invalid or lack "download": true, each as
\* it was and in the order they had.
C10_RemainderIsUnmarkedOrInvalid ==
  checkLaterCompleted => checkLater.data = SelectSeq(initial.checkLater.data, keptEntry)

\* A completed check-later run that found a valid marked entry between or
\* before an invalid marked entry and a valid unmarked one, and kept both.
C10_Witness ==
  /\ checkLaterCompleted
  /\ Len(initial.checkLater.data) = 3
  /\ Len(checkLater.data) = 2
  /\ \E a, b \in 1..2 :
       /\ ~wellFormed(checkLater.data[a]) /\ hasMarker(checkLater.data[a])
       /\ wellFormed(checkLater.data[b]) /\ ~hasMarker(checkLater.data[b])

runEnded == pc = "done"

\* The ids whose download succeeded in this run.
succeededIds ==
  {downloads[k].id : k \in {n \in 1..Len(downloads) : downloads[n].success = "true"}}

\* C11: when a run ends, failed.json holds no entry for an id whose
\* download succeeded in that run.
C11_FailureRetractedOnSuccess ==
  runEnded => \A id \in succeededIds : CountId(failed.data, id) = 0

----------------------------------------------------------------------------
\* The entries of a list that do not carry the id.
withoutId(entries, id) == SelectSeq(entries, LAMBDA e : Get(e, "id") # id)

isPrefix(before, after) ==
  /\ Len(before) <= Len(after)
  /\ SubSeq(after, 1, Len(before)) = before

\* The ids whose download succeeds in the step.
succeedsInStep ==
  IF Len(downloads') > Len(downloads) /\ downloads'[Len(downloads')].success = "true"
    THEN {downloads'[Len(downloads')].id}
    ELSE {}

entriesStayInPlace ==
  /\ isPrefix(ignored.data, ignored'.data)
  /\ \/ isPrefix(failed.data, failed'.data)
     \/ \E id \in succeedsInStep :
          /\ CountId(failed.data, id) > 0
          /\ failed'.data = withoutId(failed.data, id)

\* C12: no operation removes an entry of ignored.json; an operation removes
\* entries of failed.json only when it is the successful download of their
\* id, and then only those; every other entry of both files keeps its place.
C12_OnlySuccessRemovesFailedEntries == [][entriesStayInPlace]_vars

\* A run ended in which the failed entry of one id was retracted and the
\* failed entry of another id stayed.
C12_Witness ==
  /\ runEnded
  /\ Len(initial.failed.data) = 2
  /\ Len(failed.data) = 1
  /\ succeededIds # {}
  /\ failed.data[1] \in Range(initial.failed.data)

----------------------------------------------------------------------------
secondRunEnded == firstRun.done /\ pc = "done"

\* C13: a channel run made a second time with the same listing, catalog,
\* --year, archive and collaborator outcomes leaves ignored.json,
\* failed.json and check_later.json as the first run left them.
C13_SecondRunLeavesFilesAsFirst ==
  secondRunEnded =>
    /\ ignored = firstRun.ignored
    /\ failed = firstRun.failed
    /\ checkLater = firstRun.checkLater

----------------------------------------------------------------------------
\* What read() returns of a tracking file.
storedEntries(file) == IF file.kind = "array" THEN file.data ELSE <<>>

\* C14: after a crash read() still returns every entry recorded before the
\* operation the crash interrupted: it returns the old list or the new one.
C14_CrashLosesOnlyInFlightItem ==
  lastOp.op = "crash" =>
    \/ storedEntries(store) = storedEntries(lastOp.found)
    \/ storedEntries(store) = Append(storedEntries(lastOp.found), lastOp.entry)

----------------------------------------------------------------------------
\* C15: whatever the tracking file held, after addTrackingEntry read()
\* returns a list that contains the entry, and after removeTrackingEntryById
\* of an entry's id read() returns a list with no entry of that id.
C15_AddThenReadRemoveThenRead ==
  /\ lastOp.op = "add" => lastOp.entry \in Range(storedEntries(store))
  /\ lastOp.op = "remove" /\ lastOp.videoId # NULL =>
       CountId(storedEntries(store), lastOp.videoId) = 0

\* An entry was added to a file that held text that is not JSON.
C15_Witness ==
  /\ lastOp.op = "add"
  /\ lastOp.found.kind = "invalid"
  /\ storedEntries(store) = <<lastOp.entry>>

----------------------------------------------------------------------------
\* C16: readTrackingJson returns the empty list of a file that is absent,
\* holds no bytes, holds text that is not JSON or holds JSON that is not an
\* array; it returns the list of a file that holds one; it leaves the file
\* as it found it.
C16_ReadIsTotalAndLeavesFile ==
  lastOp.op = "read" =>
    /\ store = lastOp.found
    /\ lastOp.found.kind \in {"missing", "empty", "invalid", "object"} =>
         lastOp.returned = <<>>
    /\ lastOp.found.kind = "array" => lastOp.returned = lastOp.found.data

\* A file that holds no array, though it holds bytes, was read.
C16_Witness ==
  /\ lastOp.op = "read"
  /\ lastOp.found.kind \in {"invalid", "object"}
  /\ lastOp.returned = <<>>

----------------------------------------------------------------------------
archiveStep ==
  /\ downloadedSet' = downloadedSet
  /\ \/ archive' = archive
     \/ \E id \in succeedsInStep : archive' = archive \cup {id}

\* C17: no step of a run changes the ArchiveSet loaded when the run started,
\* and the archive file changes only in a step in which downloadVideo
\* returned true, by the id handed to it.
C17_ArchiveWrittenOnlyByDownloader == [][archiveStep]_vars

\* A run ended in which a download added an id to the archive file, the
\* ArchiveSet being as it was loaded.
C17_Witness ==
  /\ runEnded
  /\ archive # initial.archive
  /\ succeededIds # {}
  /\ downloadedSet = initial.archive

----------------------------------------------------------------------------
\* The positions of the last token of a line: from the last character that
\* is not white space back to the white space before it.
tokenEnd(line) == SetMax({i \in 1..Len(line) : line[i] # " "})

tokenStart(line) ==
  SetMin({i \in 1..tokenEnd(line) : \A j \in i..tokenEnd(line) : line[j] # " "})

lastToken(line) == SubSeq(line, tokenStart(line), tokenEnd(line))

nonBlank(line) == \E i \in 1..Len(line) : line[i] # " "

\* The line holds white space between two tokens.
severalTokens(line) ==
  nonBlank(line) /\ \E i \in 1..tokenStart(line) - 1 : line[i] # " "

archiveLoaded == lastOp.op = "load" /\ archiveText.kind = "text"

\* C18 as claimed: the ArchiveSet is the set of the last tokens of the lines
\* of the archive file that are not blank.
C18_ArchiveSetIsLastTokens ==
  archiveLoaded =>
    lastOp.returned =
      {lastToken(archiveText.lines[k]) :
         k \in {n \in 1..Len(archiveText.lines) : nonBlank(archiveText.lines[n])}}

\* C18 amended: the ArchiveSet is the set of the last tokens of the lines of
\* the archive file that hold at least two tokens.
C18_ArchiveSetIsLastTokensOfRecords ==
  archiveLoaded =>
    lastOp.returned =
      {lastToken(archiveText.lines[k]) :
         k \in {n \in 1..Len(archiveText.lines) :
                  severalTokens(archiveText.lines[n])}}

\* An archive file was loaded that holds a record of two tokens and a line
\* of one token: the set holds the id of the record alone.
C18_Witness ==
  /\ archiveLoaded
  /\ archiveText.lines = << <<"y", " ", "y", "y">>, <<"y">> >>
  /\ lastOp.returned = { <<"y", "y">> }

----------------------------------------------------------------------------
\* What downloadVideo returned for the chosen video of bucket s, "none" when
\* it was not called.
downloadOf(s) ==
  IF \E k \in 1..Len(downloads) : downloads[k].id = selections[s].chosen.id
    THEN downloads[CHOOSE k \in 1..Len(downloads) :
                     downloads[k].id = selections[s].chosen.id].success
    ELSE "none"

\* The message of the error bucket s met, "none" when it met none.
errorOf(s) ==
  IF outcomes[s].fetch = "error" THEN "Processing error (metadata/check)"
  ELSE IF downloadOf(s) = "false"
    THEN "downloadVideo returned false (likely yt-dlp exec error)"
  ELSE IF downloadOf(s) = "throw" THEN "Download function error"
  ELSE "none"

\* The entries of failed.json for the id that carry the message.
failedWith(id, message) ==
  {k \in 1..Len(failed.data) :
     /\ Get(failed.data[k], "id") = id
     /\ "error" \in DOMAIN failed.data[k]
     /\ failed.data[k].error = message}

\* C19: in a channel run whose listing was fetched, the error a bucket's
\* chosen video meets in the metadata fetch or in downloadVideo is not
\* thrown further: it adds one entry with the error message to failed.json,
\* and the run goes on to complete with every bucket processed.
C19_BucketErrorIsRecordedAndPassed ==
  mode = "channel" /\ pc # "start" /\ listing # <<>> =>
    /\ result # "threw"
    /\ Len(outcomes) = Len(selections)
    /\ \A s \in 1..Len(selections) :
         errorOf(s) # "none" =>
           /\ CountId(failed.data, selections[s].chosen.id)
                = CountId(initial.failed.data, selections[s].chosen.id) + 1
           /\ failedWith(selections[s].chosen.id, errorOf(s)) # {}
    /\ pc = "done" =>
         /\ result = "completed"
         /\ Len(selections) = Len(bucketList(potentialVideosMap))

\* A completed channel run of two buckets: the first met an error in the
\* metadata fetch, the second was handed to downloadVideo.
C19_Witness ==
  /\ channelCompleted
  /\ Len(selections) = 2
  /\ outcomes[1].fetch = "error"
  /\ failedWith(selections[1].chosen.id, "Processing error (metadata/check)") # {}
  /\ selections[2].chosen.id \in handed

----------------------------------------------------------------------------
\* A step handles one item to its end: one stub of pass 1, one bucket of
\* pass 2 or one entry of the check-later list, with at most one metadata
\* fetch and one call of downloadVideo.
oneItemStep ==
  /\ idx' \in {idx, idx + 1}
  /\ gidx' \in {gidx, gidx + 1}
  /\ ~(idx' # idx /\ gidx' # gidx)
  /\ Len(downloads') <= Len(downloads) + 1
  /\ Cardinality(fetched' \ fetched) <= 1

\* after is before with at most one entry added at the end.
grownByOne(before, after) ==
  isPrefix(before, after) /\ Len(after) <= Len(before) + 1

\* Every write starts from what the file holds at that moment: it adds one
\* entry to it or retracts the failed entries of the id just downloaded, and
\* the write of the check-later remainder finds check_later.json as the run
\* read it.
writesFromCurrent ==
  /\ grownByOne(ignored.data, ignored'.data)
  /\ \/ grownByOne(failed.data, failed'.data)
     \/ \E id \in succeedsInStep : failed'.data = withoutId(failed.data, id)
  /\ IF mode = "checkLater"
       THEN checkLater' # checkLater =>
              /\ checkLater = initial.checkLater
              /\ pc' = "done"
       ELSE grownByOne(checkLater.data, checkLater'.data)

\* C20: the items of a run are handled one after the other, each to its
\* end, and no write of the run drops an entry another write of the same run
\* has added.
C20_SequentialNoLostUpdate == [][oneItemStep /\ writesFromCurrent]_vars

\* A channel run ended that added two entries to ignored.json in pass 1 and
\* one to failed.json in pass 2, all three being in the files.
C20_Witness ==
  /\ channelCompleted
  /\ Len(ignored.data) = Len(initial.ignored.data) + 2
  /\ Len(failed.data) = Len(initial.failed.data) + 1
  /\ Len(selections) = 1

\* The year pass 1 files a title under, going by the title and the --year
\* option alone.
yearOfTitle(title) ==
  IF forcedYear # NULL THEN forcedYear ELSE ParseTitle(title).year

\* Positions in the listing of the recordings of the performance (year, name).
recordingsOf(year, name) ==
  {k \in 1..Len(listing) :
     /\ ~isPlaceholderTitle(listing[k].title)
     /\ ParseTitle(listing[k].title).conjunto # NullConjunto
     /\ ParseTitle(listing[k].title).conjunto.name = name
     /\ yearOfTitle(listing[k].title) = year}

\* The round priority of the title of every video, computed once.
titlePriorities == [i \in VideoIndex |-> getRoundPriority(ParsedTitle[i].round)]

\* The round priority of the title at position k of the listing.
priorityAt(k) ==
  titlePriorities[CHOOSE i \in VideoIndex : Videos[i].title = listing[k].title]

\* The first of them that no other one beats, going by the listing alone.
firstBestOf(year, name) ==
  CHOOSE k \in recordingsOf(year, name) :
    \A j \in recordingsOf(year, name) :
      /\ priorityAt(j) <= priorityAt(k)
      /\ priorityAt(j) = priorityAt(k) => k <= j

\* The performances a listing holds.
performancesOf ==
  {<<yearOfTitle(listing[k].title), ParseTitle(listing[k].title).conjunto.name>> :
     k \in {j \in 1..Len(listing) :
              /\ ~isPlaceholderTitle(listing[j].title)
              /\ ParseTitle(listing[j].title).conjunto # NullConjunto
              /\ Truthy(yearOfTitle(listing[j].title))}}

\* C21: the video chosen for a bucket is a function of the ordered listing,
\* the catalog and the forced year alone: whatever ignored.json, failed.json,
\* check_later.json and the archive hold and whatever the metadata source and
\* the downloader did for other buckets, the bucket of a performance chooses
\* the first recording in the listing that no other recording of the
\* performance beats, and a completed run has chosen for every performance
\* of the listing.  Two runs over the same listing, catalog and forced year
\* therefore choose the same video for every bucket.
C21_WinnerDependsOnListingOnly ==
  /\ \A s \in 1..Len(selections) :
       /\ recordingsOf(selections[s].year, selections[s].name) # {}
       /\ selections[s].chosen.id
            = listing[firstBestOf(selections[s].year, selections[s].name)].id
  /\ channelCompleted =>
       {<<selections[s].year, selections[s].name>> : s \in 1..Len(selections)}
         = performancesOf

\* A completed run over two buckets, one of them with several recordings,
\* that found entries in ignored.json and failed.json and whose downloader
\* failed for the first bucket before the second one was chosen.
C21_Witness ==
  /\ channelCompleted
  /\ Len(selections) = 2
  /\ \E s \in 1..2 : Len(selections[s].videos) >= 2
  /\ initial.ignored.data # <<>>
  /\ initial.failed.data # <<>>
  /\ \E a \in 1..Len(downloads) :
       downloads[a].id = selections[1].chosen.id /\ downloads[a].success # "true"

\* Fractions compared by cross-multiplication.
atLeast(a, b) == a.num * b.den >= b.num * a.den

\* The similarity of a text and the k-th (category, name) pair.
pairScore(text, pairs, k) == calculateSimilarity(text, pairs[k].name)

\* The first pair, in iteration order, that attains the maximum similarity.
firstMaximum(text, pairs) ==
  CHOOSE k \in 1..Len(pairs) :
    \A j \in 1..Len(pairs) :
      /\ atLeast(pairScore(text, pairs, k), pairScore(text, pairs, j))
      /\ j < k => ~atLeast(pairScore(text, pairs, j), pairScore(text, pairs, k))

\* The first entry attaining the maximum when the maximum is at least the
\* threshold, else null.
firstMaximumEntry(text, pairs, threshold) ==
  IF pairs = <<>> THEN NullConjunto
  ELSE IF atLeast(pairScore(text, pairs, firstMaximum(text, pairs)), threshold)
    THEN pairs[firstMaximum(text, pairs)]
  ELSE NullConjunto

matcherCalled == call.fn = "findBestConjuntoMatch"

\* C22 as claimed: for every text the matcher returns the first entry, in
\* catalog iteration order, that attains the maximum similarity over all
\* (category, name) pairs when that maximum is at least the threshold, and
\* null when the maximum is below the threshold.
C22_FirstMaximumAtThreshold ==
  matcherCalled =>
    call.returned = firstMaximumEntry(call.titlePart, catalogPairs(call.conjuntos),
                                      call.threshold)

\* C22 amended: for a text that is not empty the matcher returns the first
\* entry, in catalog iteration order, that attains the maximum similarity
\* when that maximum is at least the threshold, and null when the maximum is
\* below the threshold; for an empty or null text it returns null.
C22_FirstMaximumForNonEmptyText ==
  matcherCalled =>
    call.returned =
      IF Truthy(call.titlePart)
        THEN firstMaximumEntry(call.titlePart, catalogPairs(call.conjuntos),
                               call.threshold)
        ELSE NullConjunto

\* Three entries of two categories, the second and the third tie at the
\* maximum, which is below 1 and at least the threshold: the second entry is
\* returned.
C22_Witness ==
  /\ matcherCalled
  /\ Truthy(call.titlePart)
  /\ Len(catalogPairs(call.conjuntos)) = 3
  /\ call.returned = catalogPairs(call.conjuntos)[2]
  /\ call.returned.name # catalogPairs(call.conjuntos)[3].name
  /\ pairScore(call.titlePart, catalogPairs(call.conjuntos), 2)
       = pairScore(call.titlePart, catalogPairs(call.conjuntos), 3)
  /\ pairScore(call.titlePart, catalogPairs(call.conjuntos), 2) # SimOne

\* The k-th pair is the one entry of the catalog whose normalized name is
\* the normalized text.
exactEntry(text, pairs, k) ==
  /\ normalizeString(pairs[k].name) = normalizeString(text)
  /\ \A j \in 1..Len(pairs) :
       normalizeString(pairs[j].name) = normalizeString(text) => j = k

\* C23: when the normalized text equals the normalized name of a catalog
\* entry (and of no other), the similarity of the text and that entry is 1
\* and that entry is what the matcher returns, whatever the threshold.
C23_ExactEntryIsReturned ==
  matcherCalled =>
    \A k \in 1..Len(catalogPairs(call.conjuntos)) :
      exactEntry(call.titlePart, catalogPairs(call.conjuntos), k)
        => /\ pairScore(call.titlePart, catalogPairs(call.conjuntos), k) = SimOne
           /\ call.returned = catalogPairs(call.conjuntos)[k]

parserCalled == call.fn = "parseVideoTitle"

\* The title gets past the exclusion filter.
hasExcludedKeyword(title) ==
  \E kw \in {<<"p","r","u","e","b","a","d","e","a","d","m","i","s","i","o","n">>,
             <<"d","e","s","f","i","l","e">>,
             <<"l","l","a","m","a","d","a","s">>} :
    includes(normalizeString(title), kw)

passesFilter(title) ==
  /\ title # NULL /\ title # <<>>
  /\ ~startsWith(title, PrivateMarker)
  /\ ~startsWith(title, DeletedMarker)
  /\ ~hasExcludedKeyword(title)

\* The catalog entry a text matches at 0.85, or NullConjunto.
entryFor(text) == findBestConjuntoMatch(text, Catalog, ParserThreshold)

\* What an explicit format's match (m) finds: its round and its group.
roundFound(m) == matchedRound(normalizeString(trim(m.roundPart))) # NULL

groupFound(m) == entryFor(trim(m.namePartRaw)) # NullConjunto

legacyDigitOK(m) == m.etapa \in {"1", "2", "3", "4", "5", "6"}

\* Some explicit format matches the structure of the title and recognizes
\* its round, and its name segment matches no catalog entry.
nameSegmentFails(title) ==
  \/ /\ format1Match(title).ok
     /\ roundFound(format1Match(title)) /\ ~groupFound(format1Match(title))
  \/ /\ format2Match(title).ok
     /\ roundFound(format2Match(title)) /\ ~groupFound(format2Match(title))
  \/ /\ etapa2015Match(title).ok
     /\ legacyDigitOK(etapa2015Match(title)) /\ ~groupFound(etapa2015Match(title))

\* Some explicit format succeeds for the title.
explicitSucceeds(title) ==
  \/ /\ format1Match(title).ok
     /\ roundFound(format1Match(title)) /\ groupFound(format1Match(title))
  \/ /\ format2Match(title).ok
     /\ roundFound(format2Match(title)) /\ groupFound(format2Match(title))
  \/ /\ etapa2015Match(title).ok
     /\ legacyDigitOK(etapa2015Match(title)) /\ groupFound(etapa2015Match(title))

\* What the general fallback makes of a title by itself: the group the
\* whole title matches, the first year token and the first round keyword.
fallbackRecord(title, entry) ==
  IF entry = NullConjunto THEN EmptyRecord
  ELSE [year |-> yearMatch(title), conjunto |-> entry,
        round |-> matchedRound(normalizeString(title)),
        isAlternativeFormat |-> FALSE]

\* C24: when an explicit format matches the structure of a title and its
\* name segment matches no catalog entry, and no other explicit format
\* succeeds, the parser returns what the general fallback makes of the whole
\* title: the failed stage leaves nothing behind and ends nothing.
C24_FailedNameSegmentFallsThrough ==
  (/\ parserCalled
   /\ passesFilter(call.title)
   /\ nameSegmentFails(call.title)
   /\ ~explicitSucceeds(call.title))
    => call.returned = fallbackRecord(call.title, entryFor(call.title))

\* The dated format matches, its name segment is no group, and the fallback
\* resolves a group and a year from the whole title.
C24_Witness ==
  /\ parserCalled
  /\ passesFilter(call.title)
  /\ format1Match(call.title).ok
  /\ nameSegmentFails(call.title)
  /\ call.returned.conjunto # NullConjunto
  /\ Truthy(call.returned.year)
  /\ ~call.returned.isAlternativeFormat

\* The parser returned a record of the four fields.
returnedRecord ==
  DOMAIN call.returned = {"year", "conjunto", "round", "isAlternativeFormat"}

\* C25 as claimed: the parser returns a record for every title, and when no
\* explicit format succeeds the record is the empty record or has both a
\* year and a group.
C25_FallbackGivesBothOrNothing ==
  parserCalled =>
    /\ returnedRecord
    /\ ~explicitSucceeds(call.title)
         => \/ call.returned = EmptyRecord
            \/ Truthy(call.returned.year) /\ call.returned.conjunto # NullConjunto

\* C25 amended: the parser returns a record for every title, and when no
\* explicit format succeeds the record is the empty record or has a group
\* and isAlternativeFormat false: a title of which the general fallback
\* resolves no group yields the empty record, with or without a year token,
\* and a title of which it resolves the group and no year yields a record
\* with that group and a null year.
C25_FallbackGivesGroupOrNothing ==
  parserCalled =>
    /\ returnedRecord
    /\ ~explicitSucceeds(call.title)
         => /\ \/ call.returned = EmptyRecord
               \/ call.returned.conjunto # NullConjunto
                    /\ ~call.returned.isAlternativeFormat
            /\ entryFor(call.title) = NullConjunto => call.returned = EmptyRecord
            /\ (/\ passesFilter(call.title)
                /\ entryFor(call.title) # NullConjunto
                /\ yearMatch(call.title) = NULL)
                 => /\ call.returned.conjunto = entryFor(call.title)
                    /\ call.returned.year = NULL

\* A title that names a group and a round and holds no year token.
C25_Witness ==
  /\ parserCalled
  /\ ~explicitSucceeds(call.title)
  /\ call.returned.conjunto # NullConjunto
  /\ call.returned.year = NULL
  /\ call.returned.round # NULL

\* The labels of the round keywords a phrase contains.
roundLabelsIn(phrase) ==
  {roundKeywords[k].label :
     k \in {j \in 1..Len(roundKeywords) :
              includes(normalizeString(phrase), roundKeywords[j].kw)}}

\* C26 as claimed: for every title "<ordinal> Etapa <year> - <name> -
\* <round phrase>" whose round phrase contains a round keyword and whose
\* name segment matches a catalog entry at 0.85, the parser returns that
\* year, that entry, the label of a round keyword of the phrase and
\* isAlternativeFormat true.
C26_DatedFormatResult ==
  parserCalled =>
    \A o \in TitleParts.ordinals, y \in TitleParts.years, n \in TitleParts.names, r \in TitleParts.rounds :
      (/\ call.title = datedTitle(o, y, n, r)
       /\ roundLabelsIn(r) # {}
       /\ entryFor(trim(n)) # NullConjunto)
        => /\ call.returned.year = y
           /\ call.returned.conjunto = entryFor(trim(n))
           /\ call.returned.round \in roundLabelsIn(r)
           /\ call.returned.isAlternativeFormat

\* C26 amended: the same for the titles of that form that hold no
\* blacklisted keyword; those that hold one yield the empty record.
C26_DatedFormatResultPastFilter ==
  parserCalled =>
    \A o \in TitleParts.ordinals, y \in TitleParts.years, n \in TitleParts.names, r \in TitleParts.rounds :
      call.title = datedTitle(o, y, n, r)
        => /\ (/\ ~hasExcludedKeyword(call.title)
                /\ roundLabelsIn(r) # {}
                /\ entryFor(trim(n)) # NullConjunto)
                 => /\ call.returned.year = y
                    /\ call.returned.conjunto = entryFor(trim(n))
                    /\ call.returned.round \in roundLabelsIn(r)
                    /\ call.returned.isAlternativeFormat
           /\ hasExcludedKeyword(call.title) => call.returned = EmptyRecord

\* "4ta Etapa 2020 - Cayo - Primera Rueda" against a catalog that lists the
\* name with its accent under Murgas.
C26_Witness ==
  /\ parserCalled
  /\ call.title = datedTitle(<<"4","t","a"," ">>, <<"2","0","2","0">>,
                             <<"C","a","y","o">>, <<"P","r","i","m","e","r","a"," ","R","u","e","d","a">>)
  /\ call.returned =
       [year |-> <<"2","0","2","0">>,
        conjunto |-> [name |-> <<"C","a","y","o_acute">>, category |-> <<"M","u","r","g","a","s">>],
        round |-> <<"P","r","i","m","e","r","a"," ","R","u","e","d","a">>,
        isAlternativeFormat |-> TRUE]

liguillaLabel == <<"L","i","g","u","i","l","l","a">>

\* The record of the 2015 format for an entry of the catalog.
legacyRecord(entry) ==
  [year |-> <<"2","0","1","5">>, conjunto |-> entry, round |-> liguillaLabel,
   isAlternativeFormat |-> TRUE]

C28_ExcludedTitleGivesEmptyRecord ==
  (parserCalled /\ ~passesFilter(call.title)) => call.returned = EmptyRecord

\* A title that names a group, a year and a round after a blacklisted
\* keyword that only normalization brings out ("Des-file ...").
C28_Witness ==
  /\ parserCalled
  /\ startsWith(call.title, <<"D","e","s","-","f","i","l","e"," ">>)
  /\ hasExcludedKeyword(call.title)
  /\ entryFor(call.title) # NullConjunto
  /\ yearMatch(call.title) # NULL
  /\ roundLabelsIn(call.title) # {}
  /\ call.returned = EmptyRecord

priorityCalled == call.fn = "getRoundPriority"

\* The round keywords and the priority of each.
keywordPriority ==
  {[kw |-> <<"l","i","g","u","i","l","l","a">>, priority |-> 3],
   [kw |-> <<"s","e","g","u","n","d","a">>, priority |-> 2],
   [kw |-> <<"2","d","a">>, priority |-> 2],
   [kw |-> <<"p","r","i","m","e","r","a">>, priority |-> 1],
   [kw |-> <<"1","r","a">>, priority |-> 1],
   [kw |-> <<"1","e","r","a">>, priority |-> 1]}

\* The priorities of the keywords the normalized label contains, and 0.
prioritiesIn(label) ==
  {0} \cup {e.priority : e \in {k \in keywordPriority :
                                  includes(normalizeString(label), k.kw)}}

\* C29: the priority of a label is in 0..3 and is the highest priority of the
\* round keywords its normalized form contains (3 liguilla; 2 segunda, 2da;
\* 1 primera, 1ra, 1era), 0 when it contains none and when the label is null
\* or empty.
C29_PriorityIsHighestKeyword ==
  priorityCalled =>
    /\ call.returned \in 0..3
    /\ call.returned \in prioritiesIn(call.roundName)
    /\ \A q \in prioritiesIn(call.roundName) : q <= call.returned
    /\ call.roundName \in {NULL, <<>>} => call.returned = 0

\* A label that contains a keyword of priority 1 before one of priority 3.
C29_Witness ==
  /\ priorityCalled
  /\ call.roundName # NULL
  /\ prioritiesIn(call.roundName) = {0, 1, 3}
  /\ startsWith(call.roundName, <<"1","e","r","a">>)
  /\ call.returned = 3

similarityCalled == call.fn = "calculateSimilarity"

\* Two scores are the same number.
sameScore(a, b) == a.num * b.den = b.num * a.den

\* C30: the similarity of two texts is the similarity of the same texts in
\* the other order, and the similarity of a text that is not empty and
\* itself is 1.
C30_SimilaritySymmetricAndReflexive ==
  similarityCalled =>
    /\ sameScore(call.returned, calculateSimilarity(call.str2, call.str1))
    /\ (call.str1 = call.str2 /\ call.str1 # <<>> /\ call.str1 # NULL)
         => sameScore(call.returned, SimOne)

\* Two texts of different lengths, neither containing the other, whose
\* similarity is strictly between 0 and 1.
C30_Witness ==
  /\ similarityCalled
  /\ Len(normalizeString(call.str1)) < Len(normalizeString(call.str2))
  /\ ~includes(normalizeString(call.str2), normalizeString(call.str1))
  /\ call.returned.num > 0
  /\ call.returned.num < call.returned.den

normalizeCalled == call.fn = "normalizeString"

\* C31: normalizeString returns the empty string for an input that is not a
\* string, what it returns holds only characters of [a-z0-9], and
\* normalizing what it returns gives the same string again.
C31_NormalizeTotalAndIdempotent ==
  normalizeCalled =>
    /\ call.str = NULL => call.returned = <<>>
    /\ \A i \in 1..Len(call.returned) :
         call.returned[i] \in
           {"a", "b", "c", "d", "e", "f", "g", "h", "i", "j", "k", "l", "m",
            "n", "o", "p", "q", "r", "s", "t", "u", "v", "w", "x", "y", "z",
            "0", "1", "2", "3", "4", "5", "6", "7", "8", "9"}
    /\ normalizeString(call.returned) = call.returned

\* A string with a capital, an accented letter and punctuation, of which
\* letters are left.
C31_Witness ==
  /\ normalizeCalled
  /\ call.str = <<"B", "O_acute", "-">>
  /\ call.returned = <<"b", "o">>

\* The entry a step adds at the end of a collection, as a set: empty when the
\* step adds none.
addedEntry(before, after) ==
  IF Len(after) = Len(before) + 1 /\ SubSeq(after, 1, Len(before)) = before
    THEN {after[Len(after)]} ELSE {}

\* The entry has the four fields and its id is the id of a video.
hasMinimumFields(e) ==
  /\ \A f \in {"id", "title", "url", "reason"} : f \in DOMAIN e
  /\ \E i \in VideoIndex : Get(e, "id") = Videos[i].id

\* C32: every entry a step of a run adds to ignored.json, failed.json or
\* check_later.json has the fields id, title, url and reason, and its id is
\* the id of the video the entry is about.
C32_AppendedEntriesHaveFields ==
  [][\A e \in addedEntry(ignored.data, ignored'.data)
             \cup addedEntry(failed.data, failed'.data)
             \cup addedEntry(checkLater.data, checkLater'.data) :
       hasMinimumFields(e)]_vars

\* The title of video i was parsed by an explicit format that names a round.
explicitRound(i) ==
  ParsedTitle[i].isAlternativeFormat /\ Truthy(ParsedTitle[i].round)

\* The run has added an entry for the id to check_later.json.
deferredInRun(id) ==
  \E e \in Range(appended(checkLater.data, initial.checkLater.data)) :
    Get(e, "id") = id

\* C33: in a channel run and in a single-video run, a chosen video whose
\* title was parsed by an explicit format with a round, and whose metadata
\* was returned, is handed to downloadVideo and is not added to
\* check_later.json, whatever its duration.
C33_RoundFormatAlwaysDownloaded ==
  \A i \in VideoIndex :
    explicitRound(i) =>
      /\ mode = "channel" =>
           \A s \in 1..Len(outcomes) :
             /\ selections[s].chosen.id = Videos[i].id
             /\ outcomes[s].fetch \in {"full", "noid"}
             => Videos[i].id \in handed /\ ~deferredInRun(Videos[i].id)
      /\ mode = "video" /\ status \in {"ignored", "check_later", "downloaded"}
           /\ Videos[i].url \in fetched
           => status = "downloaded" /\ ~deferredInRun(Videos[i].id)

\* C34: when the tracking file holds an array L, addTrackingEntry(e) leaves
\* it holding L followed by e, also when L has an entry with e's id, and
\* removeTrackingEntryById(id) leaves it holding the entries of L whose id
\* is not id, in their order; removeTrackingEntryById with a null or empty
\* id, or with an id no entry carries, leaves the file as it found it.
C34_AppendAndRemoveOnArray ==
  /\ lastOp.op = "add" /\ lastOp.found.kind = "array" =>
       store = ArrayFile(Append(lastOp.found.data, lastOp.entry))
  /\ lastOp.op = "remove" /\ lastOp.found.kind = "array" =>
       /\ store.kind = "array"
       /\ store.data = IF lastOp.videoId \in {NULL, <<>>} THEN lastOp.found.data
                       ELSE withoutId(lastOp.found.data, lastOp.videoId)
  /\ /\ lastOp.op = "remove"
     /\ \/ lastOp.videoId \in {NULL, <<>>}
        \/ CountId(storedEntries(lastOp.found), lastOp.videoId) = 0
     => store = lastOp.found

\* An entry was added to an array that already held an entry with its id.
C34_Witness ==
  /\ lastOp.op = "add"
  /\ lastOp.found.kind = "array"
  /\ CountId(lastOp.found.data, lastOp.entry.id) = 1
  /\ CountId(store.data, lastOp.entry.id) = 2

\* The year a single-video run is to use for video i.
parsedElseForced(i) ==
  IF Truthy(ParsedTitle[i].year) THEN ParsedTitle[i].year ELSE forcedYear

\* C35: in a single-video run the effective year is the year parsed from the
\* title when there is one and the forced year otherwise: the entry the run
\* adds to check_later.json or failed.json carries that year, and the video
\* is ignored for its year only when there is neither.
C35_SingleRunKeepsParsedYear ==
  mode = "video" /\ status # "none" =>
    \A i \in VideoIndex :
      Videos[i].url \in fetched =>
        /\ \A e \in addedEntry(initial.checkLater.data, checkLater.data)
                    \cup addedEntry(initial.failed.data, failed.data) :
             "year" \in DOMAIN e => e.year = parsedElseForced(i)
        /\ status \in {"check_later", "downloaded"} => Truthy(parsedElseForced(i))
        /\ status = "ignored" =>
             ~Truthy(parsedElseForced(i)) \/ ParsedTitle[i].conjunto = NullConjunto

\* A video whose title gives another year than --year was deferred, with
\* the year of its title.
C35_Witness ==
  /\ mode = "video" /\ status = "check_later"
  /\ Truthy(forcedYear)
  /\ \E i \in VideoIndex :
       /\ Videos[i].url \in fetched
       /\ Truthy(ParsedTitle[i].year) /\ ParsedTitle[i].year # forcedYear
       /\ \E e \in addedEntry(initial.checkLater.data, checkLater.data) :
            e.year = ParsedTitle[i].year

\* The least number of insertions, deletions and substitutions of one
\* character that turn a into b.
RECURSIVE editDistance(_, _)
editDistance(a, b) ==
  IF a = <<>> THEN Len(b)
  ELSE IF b = <<>> THEN Len(a)
  ELSE IF Head(a) = Head(b) THEN editDistance(Tail(a), Tail(b))
  ELSE 1 + Min2(editDistance(Tail(a), Tail(b)),
                Min2(editDistance(Tail(a), b), editDistance(a, Tail(b))))

longerLength(a, b) == IF Len(a) >= Len(b) THEN Len(a) ELSE Len(b)

oneContainsOther(a, b) ==
  \/ \E i \in 0..(Len(a) - Len(b)) : \A k \in 1..Len(b) : a[i + k] = b[k]
  \/ \E i \in 0..(Len(b) - Len(a)) : \A k \in 1..Len(a) : b[i + k] = a[k]

\* The score calculateSimilarity is to give two normalized strings.
expectedScore(a, b) ==
  IF oneContainsOther(a, b) THEN SimOne
  ELSE [num |-> longerLength(a, b) - editDistance(a, b),
        den |-> longerLength(a, b)]

\* C36: the similarity lies in [0, 1]; it is 1 when one normalized input
\* contains the other, and otherwise (maxLen - d) / maxLen, d being the
\* unit-cost Levenshtein distance of the normalized inputs and maxLen the
\* longer of their lengths.
C36_SimilarityIsScaledEditDistance ==
  similarityCalled =>
    /\ call.returned.den > 0
    /\ call.returned.num >= 0
    /\ call.returned.num <= call.returned.den
    /\ sameScore(call.returned,
                 expectedScore(normalizeString(call.str1),
                               normalizeString(call.str2)))

\* Two texts of the same length, neither containing the other, that share
\* no more than a part: a substitution is needed and the score is between
\* 0 and 1.
C36_Witness ==
  /\ similarityCalled
  /\ call.str1 # NULL /\ call.str2 # NULL
  /\ Len(normalizeString(call.str1)) = 3
  /\ Len(normalizeString(call.str2)) = 3
  /\ editDistance(normalizeString(call.str1), normalizeString(call.str2)) = 1
  /\ call.returned = [num |-> 2, den |-> 3]

\* The run has added this many entries to the collection and has left the
\* entries it found in place.
grewBy(before, after, n) ==
  Len(after.data) = Len(before.data) + n
    /\ SubSeq(after.data, 1, Len(before.data)) = before.data

\* C37: a single-video run ends without raising, with one of the statuses
\* ignored, check_later, downloaded and failed; for ignored, check_later and
\* failed it has added exactly one entry to ignored.json, check_later.json
\* or failed.json and none to the other two, for downloaded it has added
\* none to any, also when the metadata fetch fails.
C37_SingleRunReturnsStatusAndOneEntry ==
  mode = "video" /\ pc = "done" =>
    /\ result = "completed"
    /\ status \in {"ignored", "check_later", "downloaded", "failed"}
    /\ grewBy(initial.ignored, ignored, IF status = "ignored" THEN 1 ELSE 0)
    /\ grewBy(initial.checkLater, checkLater,
              IF status = "check_later" THEN 1 ELSE 0)
    /\ status = "failed" => grewBy(initial.failed, failed, 1)
    /\ status # "failed" => Len(failed.data) <= Len(initial.failed.data)

\* The metadata fetch failed: the run ended with status failed and one new
\* entry in failed.json, which names no video.
C37_Witness ==
  /\ mode = "video" /\ pc = "done" /\ status = "failed"
  /\ handed = {}
  /\ \E e \in addedEntry(initial.failed.data, failed.data) :
       e.error = "Processing error"

\* The text holds the liguilla keyword and a keyword of the first or of the
\* second round.
holdsLiguillaAndEarlierRound(text) ==
  /\ includes(normalizeString(text), <<"l","i","g","u","i","l","l","a">>)
  /\ \E kw \in {<<"p","r","i","m","e","r","a","r","u","e","d","a">>,
                 <<"1","r","a","r","u","e","d","a">>,
                 <<"1","e","r","a","r","u","e","d","a">>,
                 <<"s","e","g","u","n","d","a","r","u","e","d","a">>,
                 <<"2","d","a","r","u","e","d","a">>} :
       includes(normalizeString(text), kw)

\* The text in which the parser looks for the round of a title: the round
\* phrase of the dated or undated format that succeeds, else the title.
inspectedText(title) ==
  IF /\ format1Match(title).ok
     /\ roundFound(format1Match(title)) /\ groupFound(format1Match(title))
    THEN trim(format1Match(title).roundPart)
  ELSE IF /\ format2Match(title).ok
          /\ roundFound(format2Match(title)) /\ groupFound(format2Match(title))
    THEN trim(format2Match(title).roundPart)
  ELSE title

\* C38: when the parser resolves a title, otherwise than by the 2015 format,
\* and the text it inspects for the round holds both the liguilla keyword
\* and a keyword of the first or second round, the round priority of the
\* record it returns is 3.
C38_LiguillaWinsInParsedRound ==
  (/\ parserCalled
   /\ call.returned # EmptyRecord
   /\ ~(call.returned.isAlternativeFormat /\ etapa2015Match(call.title).ok)
   /\ holdsLiguillaAndEarlierRound(inspectedText(call.title)))
    => getRoundPriority(call.returned.round) = 3

\* C39: for a text whose normalized form is empty the matcher returns null,
\* whatever the catalog and the threshold.
C39_EmptyNormalizedTextMatchesNothing ==
  matcherCalled /\ normalizeString(call.titlePart) = <<>>
    => call.returned = NullConjunto

====
